---- MODULE Spec2Model ----
(***************************************************************************)
(* Cart Price Transform of the product-options app.                        *)
(*                                                                         *)
(* cartTransformRun reads every cart line, parses the additional-price     *)
(* signal and the serialized attribute blob, and emits one lineExpand      *)
(* operation per line that qualifies for a price adjustment.               *)
(*                                                                         *)
(* JavaScript strings are TLA+ strings read character by character with    *)
(* SubSeq; JavaScript numbers are decimal values [kind, m, e] standing for *)
(* m / 10^e, NaN or +/-Infinity.  Decimal arithmetic is exact here; the    *)
(* binary rounding of IEEE doubles is not represented.                     *)
(***************************************************************************)
EXTENDS Integers, Sequences, FiniteSets, TLC

(***************************************************************************)
(* Bounds of the exploration.                                              *)
(***************************************************************************)
MaxLines == 2
MaxPasses == 2

(***************************************************************************)
(* Characters and small string helpers.                                    *)
(***************************************************************************)
Ch(s, i) == IF i >= 1 /\ i <= Len(s) THEN SubSeq(s, i, i) ELSE ""

StartsWith(s, i, prefix) ==
  /\ i + Len(prefix) - 1 <= Len(s)
  /\ SubSeq(s, i, i + Len(prefix) - 1) = prefix

DigitChars == <<"0", "1", "2", "3", "4", "5", "6", "7", "8", "9">>

IsDigit(c) == \E d \in 1..10 : DigitChars[d] = c

DigitVal(c) == (CHOOSE d \in 1..10 : DigitChars[d] = c) - 1

IsStrWhiteSpace(c) == c \in {" ", "\t", "\n", "\r"}

RECURSIVE SkipWhiteSpace(_, _)
SkipWhiteSpace(s, i) ==
  IF i <= Len(s) /\ IsStrWhiteSpace(Ch(s, i)) THEN SkipWhiteSpace(s, i + 1) ELSE i

\* index of the first character at or after i that is not a decimal digit
RECURSIVE ScanDigits(_, _)
ScanDigits(s, i) ==
  IF i <= Len(s) /\ IsDigit(Ch(s, i)) THEN ScanDigits(s, i + 1) ELSE i

\* value of the digit run s[i..j-1], read left to right on top of acc
RECURSIVE DigitsValue(_, _, _, _)
DigitsValue(s, i, j, acc) ==
  IF i >= j THEN acc ELSE DigitsValue(s, i + 1, j, acc * 10 + DigitVal(Ch(s, i)))

RECURSIVE Pow10(_)
Pow10(n) == IF n <= 0 THEN 1 ELSE 10 * Pow10(n - 1)

(***************************************************************************)
(* JavaScript numbers.                                                     *)
(***************************************************************************)
NaN == [kind |-> "nan", m |-> 0, e |-> 0]

Infinity(sign) == [kind |-> "inf", m |-> sign, e |-> 0]

\* m / 10^e without trailing fraction zeros, so equal values are equal records
RECURSIVE Fin(_, _)
Fin(m, e) ==
  IF e > 0 /\ m % 10 = 0 THEN Fin(m \div 10, e - 1)
  ELSE [kind |-> "fin", m |-> m, e |-> e]

isNaN(n) == n.kind = "nan"

\* n > 0
GreaterThanZero(n) ==
  \/ n.kind = "fin" /\ n.m > 0
  \/ n.kind = "inf" /\ n.m = 1

\* the + of two numbers
Plus(a, b) ==
  IF a.kind = "nan" \/ b.kind = "nan" THEN NaN
  ELSE IF a.kind = "inf" /\ b.kind = "inf"
       THEN (IF a.m = b.m THEN a ELSE NaN)
  ELSE IF a.kind = "inf" THEN a
  ELSE IF b.kind = "inf" THEN b
  ELSE LET e == IF a.e >= b.e THEN a.e ELSE b.e
       IN  Fin(a.m * Pow10(e - a.e) + b.m * Pow10(e - b.e), e)

(***************************************************************************)
(* parseFloat: leading white space is skipped, then the longest prefix     *)
(* that is a decimal literal ([+-] digits [. digits] or [+-]Infinity) is   *)
(* converted; anything after it is ignored; no such prefix gives NaN.      *)
(* Exponent parts (1e3) are not read: no input drawn below has one.        *)
(***************************************************************************)
parseFloat(s) ==
  LET start    == SkipWhiteSpace(s, 1)
      negative == Ch(s, start) = "-"
      i        == IF Ch(s, start) \in {"+", "-"} THEN start + 1 ELSE start
      sign     == IF negative THEN -1 ELSE 1
      intEnd   == ScanDigits(s, i)
      hasDot   == Ch(s, intEnd) = "."
      fracEnd  == IF hasDot THEN ScanDigits(s, intEnd + 1) ELSE intEnd
      nInt     == intEnd - i
      nFrac    == IF hasDot THEN fracEnd - (intEnd + 1) ELSE 0
      intVal   == DigitsValue(s, i, intEnd, 0)
      mantissa == DigitsValue(s, intEnd + 1, fracEnd, intVal)
  IN  IF StartsWith(s, i, "Infinity") THEN Infinity(sign)
      ELSE IF nInt + nFrac = 0 THEN NaN
      ELSE Fin(sign * mantissa, nFrac)

(***************************************************************************)
(* JavaScript values produced by JSON.parse.  type is the JavaScript type  *)
(* ("string", "number", "boolean", "null", "object", "array"); text is the *)
(* content of a string or the literal of a number or boolean; members are  *)
(* the own properties <<[key, value], ...>> of an object or an array in    *)
(* creation order.                                                         *)
(***************************************************************************)
JSValue(type, text, members) == [type |-> type, text |-> text, members |-> members]

JSString(text) == JSValue("string", text, <<>>)

JSNull == JSValue("null", "null", <<>>)

ParseFail == [ok |-> FALSE, pos |-> 0, value |-> JSNull]

ParseOk(pos, value) == [ok |-> TRUE, pos |-> pos, value |-> value]

\* decimal text of a natural number
RECURSIVE ToDecimal(_)
ToDecimal(n) ==
  IF n < 10 THEN DigitChars[n + 1] ELSE ToDecimal(n \div 10) \o DigitChars[(n % 10) + 1]

\* obj[key] = value: a key already present keeps its place and gets the new value
SetProperty(members, key, value) ==
  IF \E k \in 1..Len(members) : members[k].key = key
  THEN [k \in 1..Len(members) |->
          IF members[k].key = key THEN [key |-> key, value |-> value] ELSE members[k]]
  ELSE Append(members, [key |-> key, value |-> value])

\* the character an escape sequence \c stands for ("" when not accepted);
\* \b, \f and \uXXXX are not read: no input drawn below has one
Unescape(c) ==
  IF c \in {"\"", "\\", "/"} THEN c
  ELSE IF c = "n" THEN "\n"
  ELSE IF c = "t" THEN "\t"
  ELSE IF c = "r" THEN "\r"
  ELSE ""

\* body of a JSON string literal from i (after the opening quote)
RECURSIVE ParseStringBody(_, _, _)
ParseStringBody(s, i, acc) ==
  IF i > Len(s) THEN ParseFail
  ELSE IF Ch(s, i) = "\"" THEN ParseOk(i + 1, JSString(acc))
  ELSE IF Ch(s, i) = "\\"
       THEN (IF Unescape(Ch(s, i + 1)) = "" THEN ParseFail
             ELSE ParseStringBody(s, i + 2, acc \o Unescape(Ch(s, i + 1))))
  ELSE IF Ch(s, i) \in {"\n", "\t", "\r"} THEN ParseFail
  ELSE ParseStringBody(s, i + 1, acc \o Ch(s, i))

\* JSON number literal -?(0|[1-9][0-9]*)(.[0-9]+)? at i; exponents are not read
ParseNumberLiteral(s, i) ==
  LET j       == IF Ch(s, i) = "-" THEN i + 1 ELSE i
      intEnd  == IF Ch(s, j) = "0" THEN j + 1 ELSE ScanDigits(s, j)
      hasDot  == Ch(s, intEnd) = "."
      fracEnd == IF hasDot THEN ScanDigits(s, intEnd + 1) ELSE intEnd
  IN  IF intEnd = j \/ (hasDot /\ fracEnd = intEnd + 1) THEN ParseFail
      ELSE ParseOk(fracEnd, JSValue("number", SubSeq(s, i, fracEnd - 1), <<>>))

RECURSIVE ParseValue(_, _)
RECURSIVE ParseMembers(_, _, _)
RECURSIVE ParseElements(_, _, _)

\* members of an object from i (after "{" or after a ","), collected on acc
ParseMembers(s, i, acc) ==
  LET k == SkipWhiteSpace(s, i)
  IN  IF Ch(s, k) # "\"" THEN ParseFail
      ELSE LET key   == ParseStringBody(s, k + 1, "")
               colon == SkipWhiteSpace(s, key.pos)
           IN  IF ~key.ok \/ Ch(s, colon) # ":" THEN ParseFail
               ELSE LET val  == ParseValue(s, colon + 1)
                        next == SkipWhiteSpace(s, val.pos)
                        obj  == SetProperty(acc, key.value.text, val.value)
                    IN  IF ~val.ok THEN ParseFail
                        ELSE IF Ch(s, next) = "," THEN ParseMembers(s, next + 1, obj)
                        ELSE IF Ch(s, next) = "}"
                             THEN ParseOk(next + 1, JSValue("object", "", obj))
                        ELSE ParseFail

\* elements of an array from i (after "[" or after a ","), collected on acc
ParseElements(s, i, acc) ==
  LET val  == ParseValue(s, i)
      next == SkipWhiteSpace(s, val.pos)
      arr  == Append(acc, [key |-> ToDecimal(Len(acc)), value |-> val.value])
  IN  IF ~val.ok THEN ParseFail
      ELSE IF Ch(s, next) = "," THEN ParseElements(s, next + 1, arr)
      ELSE IF Ch(s, next) = "]" THEN ParseOk(next + 1, JSValue("array", "", arr))
      ELSE ParseFail

ParseValue(s, i) ==
  LET j == SkipWhiteSpace(s, i)
      c == Ch(s, j)
  IN  IF c = "\"" THEN ParseStringBody(s, j + 1, "")
      ELSE IF c = "{"
           THEN (IF Ch(s, SkipWhiteSpace(s, j + 1)) = "}"
                 THEN ParseOk(SkipWhiteSpace(s, j + 1) + 1, JSValue("object", "", <<>>))
                 ELSE ParseMembers(s, j + 1, <<>>))
      ELSE IF c = "["
           THEN (IF Ch(s, SkipWhiteSpace(s, j + 1)) = "]"
                 THEN ParseOk(SkipWhiteSpace(s, j + 1) + 1, JSValue("array", "", <<>>))
                 ELSE ParseElements(s, j + 1, <<>>))
      ELSE IF StartsWith(s, j, "true") THEN ParseOk(j + 4, JSValue("boolean", "true", <<>>))
      ELSE IF StartsWith(s, j, "false") THEN ParseOk(j + 5, JSValue("boolean", "false", <<>>))
      ELSE IF StartsWith(s, j, "null") THEN ParseOk(j + 4, JSNull)
      ELSE IF c = "-" \/ IsDigit(c) THEN ParseNumberLiteral(s, j)
      ELSE ParseFail

\* JSON.parse(text): the value, or threw when text is not one JSON value
JSONparse(text) ==
  LET r == ParseValue(text, 1)
  IN  IF r.ok /\ SkipWhiteSpace(text, r.pos) > Len(text)
      THEN [threw |-> FALSE, value |-> r.value]
      ELSE [threw |-> TRUE, value |-> JSNull]

\* key is a canonical array index ("0", "7", "12"; not "01", not "-1")
IsArrayIndex(key) ==
  /\ Len(key) >= 1
  /\ Len(key) <= 9
  /\ \A k \in 1..Len(key) : IsDigit(Ch(key, k))
  /\ Len(key) > 1 => Ch(key, 1) # "0"

\* members ordered by ascending numeric key (keys are distinct)
RECURSIVE SortByIndex(_)
SortByIndex(members) ==
  IF members = <<>> THEN <<>>
  ELSE LET val(k) == DigitsValue(members[k].key, 1, Len(members[k].key) + 1, 0)
           least  == CHOOSE k \in 1..Len(members) :
                       \A l \in 1..Len(members) : val(k) <= val(l)
       IN  <<members[least]>> \o
           SortByIndex(SubSeq(members, 1, least - 1) \o
                       SubSeq(members, least + 1, Len(members)))

\* the characters of a string as indexed properties
RECURSIVE StringMembers(_, _)
StringMembers(text, k) ==
  IF k > Len(text) THEN <<>>
  ELSE <<[key |-> ToDecimal(k - 1), value |-> JSString(Ch(text, k))]>> \o
       StringMembers(text, k + 1)

\* Object.entries(data): own enumerable string-keyed properties, array-index
\* keys first in ascending order, then the others in creation order;
\* null has no properties to enumerate and the call throws
ObjectEntries(data) ==
  LET own     == IF data.type = "string" THEN StringMembers(data.text, 1)
                 ELSE data.members
      indexed == SelectSeq(own, LAMBDA p : IsArrayIndex(p.key))
      named   == SelectSeq(own, LAMBDA p : ~IsArrayIndex(p.key))
  IN  IF data.type = "null" THEN [threw |-> TRUE, entries |-> <<>>]
      ELSE [threw |-> FALSE, entries |-> SortByIndex(indexed) \o named]

(***************************************************************************)
(* Cart lines as the transform's input query delivers them.  A selected    *)
(* attribute is null or has a value.                                       *)
(***************************************************************************)
NullAttribute == [isNull |-> TRUE, value |-> ""]

\* a field the input does not carry; reading a property of it raises TypeError
undefined == [undefined |-> TRUE]

IsUndefined(v) == DOMAIN v = {"undefined"}

TypeError == [thrown |-> "TypeError"]

Thrown(outcome) == "thrown" \in DOMAIN outcome

Attribute(value) == [isNull |-> FALSE, value |-> value]

\* item.x?.value used as a condition: not null and not the empty string
Truthy(attribute) == ~attribute.isNull /\ attribute.value # ""

CartLine(id, merchandiseId, amount, priceAttribute, attribute) ==
  [id             |-> id,
   merchandise    |-> [id |-> merchandiseId],
   cost           |-> [amountPerQuantity |-> [amount |-> amount]],
   priceAttribute |-> priceAttribute,
   attribute      |-> attribute]

(***************************************************************************)
(* cartTransformRun and its helpers.                                       *)
(***************************************************************************)
EXCLUDED_ATTRIBUTES == {"_cart_transform_processed", "_price"}

\* getAttributes without its try/catch: a blob that does not parse, or that
\* parses to null, raises out of the function
getAttributes_uncaught(item) ==
  IF ~Truthy(item.attribute) THEN [threw |-> FALSE, allAttributes |-> <<>>]
  ELSE LET data    == JSONparse(item.attribute.value)
           entries == ObjectEntries(data.value)
       IN  IF data.threw \/ entries.threw
           THEN [threw |-> TRUE, allAttributes |-> <<>>]
           ELSE [threw |-> FALSE, allAttributes |-> entries.entries]

\* the blob's entries as {key, value} pairs; an exception raised while
\* parsing is caught and the list collected so far (nothing) is returned
getAttributes(item) ==
  IF ~Truthy(item.attribute) THEN [threw |-> FALSE, allAttributes |-> <<>>]
  ELSE LET data    == JSONparse(item.attribute.value)
           entries == ObjectEntries(data.value)
       IN  IF data.threw \/ entries.threw
           THEN [threw |-> FALSE, allAttributes |-> <<>>]
           ELSE [threw |-> FALSE, allAttributes |-> entries.entries]

\* the test on the parsed signal with the positivity check lost
Qualifies_nonNaN(additionalPrice) == ~isNaN(additionalPrice)

\* !isNaN(additionalPrice) && additionalPrice > 0
Qualifies(additionalPrice) ==
  ~isNaN(additionalPrice) /\ GreaterThanZero(additionalPrice)

\* the marker test looking for a key the transform never writes
isProcessed_wrongKey(allAttributes) ==
  \E k \in 1..Len(allAttributes) : allAttributes[k].key = "_processed"

isProcessed(allAttributes) ==
  \E k \in 1..Len(allAttributes) : allAttributes[k].key = "_cart_transform_processed"

\* the new price taken from the signal alone
newUnitPrice_signalOnly(currentPrice, additionalPrice) == additionalPrice

newUnitPrice(currentPrice, additionalPrice) == Plus(currentPrice, additionalPrice)

\* no filtering at all
finalAttributes_unfiltered(allAttributes) == allAttributes

\* filtering the marker only
finalAttributes_markerOnly(allAttributes) ==
  SelectSeq(allAttributes, LAMBDA attr : attr.key # "_cart_transform_processed")

\* filtering every underscore-prefixed (hidden) property
finalAttributes_noHidden(allAttributes) ==
  SelectSeq(allAttributes, LAMBDA attr : Ch(attr.key, 1) # "_")

finalAttributes(allAttributes) ==
  SelectSeq(allAttributes, LAMBDA attr : attr.key \notin EXCLUDED_ATTRIBUTES)

\* the replacement item naming the line's id where the merchandise id belongs
expandOperation_lineAsMerchandise(item, unitPrice, attributes) ==
  [lineExpand |->
     [cartLineId        |-> item.id,
      expandedCartItems |->
        << [merchandiseId |-> item.id,
            quantity      |-> 1,
            price         |-> [adjustment |-> [fixedPricePerUnit |-> [amount |-> unitPrice]]],
            attributes    |-> attributes] >>]]

expandOperation(item, unitPrice, attributes) ==
  [lineExpand |->
     [cartLineId        |-> item.id,
      expandedCartItems |->
        << [merchandiseId |-> item.merchandise.id,
            quantity      |-> 1,
            price         |-> [adjustment |-> [fixedPricePerUnit |-> [amount |-> unitPrice]]],
            attributes    |-> attributes] >>]]

\* the body of the forEach callback: operations after the line item.  The
\* try block covers everything after the read of the cost: an exception
\* raised in it (a blob that raises, a missing merchandise) is caught and
\* the line is left without an operation
forEachLine(item, operations) ==
  LET currentPrice == parseFloat(item.cost.amountPerQuantity.amount)
  IN  IF ~Truthy(item.priceAttribute) THEN operations
      ELSE LET additionalPrice == parseFloat(item.priceAttribute.value)
               got             == getAttributes(item)
               withMarker      == Append(got.allAttributes,
                                         [key   |-> "_cart_transform_processed",
                                          value |-> JSString("true")])
           IN  IF ~Qualifies(additionalPrice) THEN operations
               ELSE IF got.threw THEN operations
               ELSE IF isProcessed(got.allAttributes) THEN operations
               ELSE IF IsUndefined(item.merchandise) THEN operations
               ELSE Append(operations,
                           expandOperation(item,
                                           newUnitPrice(currentPrice, additionalPrice),
                                           finalAttributes(withMarker)))

\* the iteration ending at the first operation pushed
RECURSIVE forEach_untilFirst(_, _, _)
forEach_untilFirst(lines, index, operations) ==
  IF index > Len(lines) \/ operations # <<>>
  THEN [threw |-> FALSE, operations |-> operations]
  ELSE IF IsUndefined(lines[index].cost) THEN [threw |-> TRUE, operations |-> operations]
  ELSE forEach_untilFirst(lines, index + 1, forEachLine(lines[index], operations))

\* the callback applied to the lines in order; item.cost.amountPerQuantity
\* is read outside the try block, so a line without cost raises out of the
\* callback and ends the iteration
RECURSIVE forEach(_, _, _)
forEach(lines, index, operations) ==
  IF index > Len(lines) THEN [threw |-> FALSE, operations |-> operations]
  ELSE IF IsUndefined(lines[index].cost) THEN [threw |-> TRUE, operations |-> operations]
  ELSE forEach(lines, index + 1, forEachLine(lines[index], operations))

\* return { operations }, reached only when the iteration did not raise
returnOperations(done) ==
  IF done.threw THEN TypeError ELSE [operations |-> done.operations]

\* the early return carrying one empty placeholder operation
cartTransformRun_placeholder(input) ==
  IF Len(input.cart.lines) = 0
  THEN [operations |-> << [lineExpand |-> [cartLineId |-> "", expandedCartItems |-> <<>>]] >>]
  ELSE returnOperations(forEach(input.cart.lines, 1, <<>>))

\* the returned batch, or TypeError when the iteration raised
cartTransformRun(input) ==
  IF Len(input.cart.lines) = 0 THEN [operations |-> <<>>]
  ELSE returnOperations(forEach(input.cart.lines, 1, <<>>))

(***************************************************************************)
(* The checkout engine between two invocations: every line named by an     *)
(* operation is replaced by the operation's single item, at the new unit   *)
(* price and with the emitted attribute list; the next invocation's input  *)
(* query selects the signal and the blob from that list by key.            *)
(***************************************************************************)
PRICE_ATTRIBUTE_KEY == "_price"

BLOB_ATTRIBUTE_KEY == "_all_properties"

\* the decimal text of a number, as String(n) writes it
NumberToString(n) ==
  IF n.kind = "nan" THEN "NaN"
  ELSE IF n.kind = "inf" THEN (IF n.m < 0 THEN "-Infinity" ELSE "Infinity")
  ELSE LET abs      == IF n.m < 0 THEN -n.m ELSE n.m
           intPart  == ToDecimal(abs \div Pow10(n.e))
           fracVal  == abs % Pow10(n.e)
           fracText == ToDecimal(fracVal)
           zeros    == [k \in 1..(n.e - Len(fracText)) |-> "0"]
           RECURSIVE Join(_)
           Join(seq) == IF seq = <<>> THEN "" ELSE Head(seq) \o Join(Tail(seq))
       IN  (IF n.m < 0 THEN "-" ELSE "") \o intPart \o
           (IF n.e = 0 THEN "" ELSE "." \o Join(zeros) \o fracText)

\* the text a line attribute holds for a carried value
AttributeText(value) ==
  IF value.type \in {"object", "array"} THEN "[object Object]" ELSE value.text

\* attribute(key: ...) of a line holding the attribute list attributes
SelectAttribute(attributes, key) ==
  IF \E k \in 1..Len(attributes) : attributes[k].key = key
  THEN Attribute(AttributeText(
         attributes[CHOOSE k \in 1..Len(attributes) :
                      /\ attributes[k].key = key
                      /\ \A l \in 1..(k - 1) : attributes[l].key # key].value))
  ELSE NullAttribute

\* operations that name the line and carry a replacement item
OperationsFor(operations, id) ==
  SelectSeq(operations, LAMBDA op : /\ op.lineExpand.cartLineId = id
                                    /\ op.lineExpand.expandedCartItems # <<>>)

ReplaceLine(line, operations) ==
  IF OperationsFor(operations, line.id) = <<>> THEN line
  ELSE LET item == OperationsFor(operations, line.id)[1].lineExpand.expandedCartItems[1]
       IN  CartLine(line.id,
                    item.merchandiseId,
                    NumberToString(item.price.adjustment.fixedPricePerUnit.amount),
                    SelectAttribute(item.attributes, PRICE_ATTRIBUTE_KEY),
                    SelectAttribute(item.attributes, BLOB_ATTRIBUTE_KEY))

(***************************************************************************)
(* Inputs: amounts, signals and blobs a storefront can put on a line.      *)
(***************************************************************************)
Amounts == {"20.00", "9.5"}

Signals ==
  { NullAttribute, Attribute(""), Attribute("5.50"), Attribute("0"), Attribute("-5"),
    Attribute("abc"), Attribute("5abc"), Attribute("Infinity") }

Blobs ==
  { NullAttribute,
    Attribute("{bad"),
    Attribute("null"),
    Attribute("{\"color\":\"red\"}"),
    Attribute("{\"color\":\"red\",\"_price\":\"5\",\"_note\":\"gift\"}"),
    Attribute("{\"_cart_transform_processed\":\"true\",\"size\":\"L\"}"),
    Attribute("{\"b\":\"1\",\"2\":\"x\",\"b\":\"3\",\"1\":\"y\"}"),
    Attribute("{\"_all_properties\":\"{\\\"size\\\":\\\"L\\\"}\",\"_price\":\"7\"}") }

LineBodies ==
  { [amount |-> a, priceAttribute |-> p, attribute |-> b] :
      a \in Amounts, p \in Signals, b \in Blobs }

\* the lines that fill a cart around the line under study
Companions ==
  { [amount |-> "20.00", priceAttribute |-> Attribute("5.50"),
     attribute |-> Attribute("{\"color\":\"red\"}")],
    [amount |-> "9.5", priceAttribute |-> NullAttribute, attribute |-> NullAttribute],
    [amount |-> "9.5", priceAttribute |-> Attribute("5.50"),
     attribute |-> Attribute("{\"_cart_transform_processed\":\"true\",\"size\":\"L\"}")] }

LineAt(k, body) ==
  CartLine("gid://shopify/CartLine/" \o ToDecimal(k),
           "gid://shopify/ProductVariant/" \o ToDecimal(k),
           body.amount, body.priceAttribute, body.attribute)

\* carts of up to MaxLines lines: one line ranges over every body, the
\* others over the companions
Carts ==
  { <<>> } \cup
  UNION { { [k \in 1..n |-> LineAt(k, IF k = f THEN body ELSE others[k])] :
              f \in 1..n, body \in LineBodies, others \in [1..n -> Companions] } :
          n \in 1..MaxLines }

(***************************************************************************)
(* State: the cart the checkout holds, the batch the last invocation       *)
(* returned, and the invocations completed so far.                         *)
(***************************************************************************)
VARIABLES cart, result, pc, pass, history

(***************************************************************************)
(* State of the storefront page: the option set handed to the renderers,   *)
(* the rendered controls with their live attributes, the value checked in  *)
(* each radio group, the console, and the number field: what was entered,  *)
(* the value it holds after validation and the notice under it.            *)
(***************************************************************************)
VARIABLES optionSet, dom, checked, console, rendered,
          numberEntry, numberValue, inputMessage

\* the values picked so far in each select, and the surcharge of each option
VARIABLES picks, surcharge

(***************************************************************************)
(* State of the app server: the stored option sets with their options,     *)
(* the request being served and the response given to it.                  *)
(***************************************************************************)
VARIABLES store, request, response

(***************************************************************************)
(* State of the option-set editor of the admin: the option configurations  *)
(* being edited and the number of random UUIDs drawn so far.               *)
(***************************************************************************)
VARIABLES optionConfigs, uuids

\* the activation in progress: its entry point, position, retry count and
\* intermediate values; and the admin GraphQL calls issued so far
VARIABLES activation, adminCalls

cartVars == <<cart, result, pc, pass, history>>

pageVars == <<optionSet, dom, checked, console, rendered, picks, surcharge>>

fieldVars == <<numberEntry, numberValue, inputMessage>>

serverVars == <<store, request, response>>

editorVars == <<optionConfigs, uuids>>

activationVars == <<activation, adminCalls>>

vars == <<cart, result, pc, pass, history,
          optionSet, dom, checked, console, rendered,
          numberEntry, numberValue, inputMessage, picks, surcharge,
          store, request, response, optionConfigs, uuids,
          activation, adminCalls>>

\* no cart under evaluation
NoCart ==
  /\ cart = <<>>
  /\ result = [operations |-> <<>>]
  /\ pc = "idle"
  /\ pass = 0
  /\ history = <<>>

\* no product page open
NoPage ==
  /\ optionSet = <<>>
  /\ dom = <<>>
  /\ checked = <<>>
  /\ console = <<>>
  /\ rendered = FALSE
  /\ picks = <<>>
  /\ surcharge = <<>>

\* no request served
NoServer ==
  /\ store = <<>>
  /\ request = <<>>
  /\ response = <<>>

\* no activation requested
NoActivation ==
  /\ activation = <<>>
  /\ adminCalls = <<>>

\* no editor open
NoEditor ==
  /\ optionConfigs = <<>>
  /\ uuids = 0

\* no number field in use
NoField ==
  /\ numberEntry = ""
  /\ numberValue = ""
  /\ inputMessage = ""

Init ==
  /\ NoServer
  /\ NoEditor
  /\ NoActivation
  /\ cart \in Carts
  /\ result = [operations |-> <<>>]
  /\ pc = "ready"
  /\ pass = 0
  /\ history = <<>>
  /\ NoPage
  /\ NoField

\* one invocation of the transform on the current cart: it returns a batch,
\* or raises and returns nothing
\* the operations array kept at module scope: every invocation pushes onto
\* what the earlier ones left
Completes_sharedOperations(outcome) ==
  IF Thrown(outcome)
  THEN /\ pc' = "threw"
       /\ UNCHANGED <<result, history>>
  ELSE /\ pc' = "returned"
       /\ result' = [operations |-> result.operations \o outcome.operations]
       /\ history' = Append(history, [lines |-> cart, operations |-> result'.operations])

\* the end of an invocation: the batch is returned and recorded, or the
\* exception leaves the caller without a batch
Completes(outcome) ==
  IF Thrown(outcome)
  THEN /\ pc' = "threw"
       /\ UNCHANGED <<result, history>>
  ELSE /\ pc' = "returned"
       /\ result' = outcome
       /\ history' = Append(history, [lines |-> cart, operations |-> outcome.operations])

Invoke ==
  /\ pc = "ready"
  /\ pass < MaxPasses
  /\ Completes(cartTransformRun([cart |-> [lines |-> cart]]))
  /\ pass' = pass + 1
  /\ UNCHANGED <<cart, pageVars, fieldVars, serverVars, editorVars, activationVars>>

\* the returned batch is applied to the cart
ApplyOperations ==
  /\ pc = "returned"
  /\ cart' = [k \in 1..Len(cart) |-> ReplaceLine(cart[k], result.operations)]
  /\ pc' = "ready"
  /\ UNCHANGED <<result, pass, history, pageVars, fieldVars, serverVars, editorVars, activationVars>>

Next == Invoke \/ ApplyOperations

Spec == Init /\ [][Next]_vars

(***************************************************************************)
(* The checkout engine recalculating: the transform is invoked again on    *)
(* the same cart state, the batch of the last invocation not applied.      *)
(***************************************************************************)
Recalculate ==
  /\ pc = "returned"
  /\ pc' = "ready"
  /\ UNCHANGED <<cart, result, pass, history, pageVars, fieldVars, serverVars, editorVars, activationVars>>

NextRecalculating == Invoke \/ ApplyOperations \/ Recalculate

SpecRecalculating == Init /\ [][NextRecalculating]_vars

(***************************************************************************)
(* Carts with one defective line: the line lacks its cost or its           *)
(* merchandise, or carries a malformed blob or a malformed signal.  The    *)
(* other lines are companions.                                             *)
(***************************************************************************)
DefectiveLineAt(k, defect, priceAttribute) ==
  [id             |-> "gid://shopify/CartLine/" \o ToDecimal(k),
   merchandise    |-> IF defect = "merchandise" THEN undefined
                      ELSE [id |-> "gid://shopify/ProductVariant/" \o ToDecimal(k)],
   cost           |-> IF defect = "cost" THEN undefined
                      ELSE [amountPerQuantity |-> [amount |-> "20.00"]],
   priceAttribute |-> IF defect = "signal" THEN Attribute("abc") ELSE priceAttribute,
   attribute      |-> IF defect = "attributes" THEN Attribute("{bad")
                      ELSE Attribute("{\"color\":\"red\"}")]

Defects == {"cost", "merchandise", "attributes", "signal"}

DefectCarts ==
  UNION { { [k \in 1..n |-> IF k = f THEN DefectiveLineAt(k, defect, p)
                            ELSE LineAt(k, others[k])] :
              f \in 1..n, defect \in Defects,
              p \in {NullAttribute, Attribute("5.50"), Attribute("0")},
              others \in [1..n -> Companions] } :
          n \in 1..MaxLines }

InitDefects ==
  /\ NoServer
  /\ NoEditor
  /\ NoActivation
  /\ cart \in DefectCarts
  /\ result = [operations |-> <<>>]
  /\ pc = "ready"
  /\ pass = 0
  /\ history = <<>>
  /\ NoPage
  /\ NoField

SpecDefects == InitDefects /\ [][Next]_vars

(***************************************************************************)
(* Vocabulary of the properties.  These read the input line directly and   *)
(* do not go through the transform's own helpers.                          *)
(***************************************************************************)
Returned == pc = "returned"

LineIndexes == 1..Len(cart)

\* the operations of the last batch that name the line
OperationsOf(line) ==
  SelectSeq(result.operations, LAMBDA op : op.lineExpand.cartLineId = line.id)

ReplacementOf(line) == OperationsOf(line)[1].lineExpand.expandedCartItems[1]

EmittedPrice(line) == ReplacementOf(line).price.adjustment.fixedPricePerUnit.amount

BasePrice(line) == parseFloat(line.cost.amountPerQuantity.amount)

SignalValue(line) == parseFloat(line.priceAttribute.value)

\* the line carries a numeric additional-price signal p > 0
PositiveSignal(line) ==
  /\ ~line.priceAttribute.isNull
  /\ line.priceAttribute.value # ""
  /\ SignalValue(line).kind # "nan"
  /\ GreaterThanZero(SignalValue(line))

\* the blob is missing, empty, or not a JSON text
BlobUnreadable(line) ==
  \/ line.attribute.isNull
  \/ line.attribute.value = ""
  \/ JSONparse(line.attribute.value).threw

\* the key/value pairs of the line's parsed blob
BlobPairs(line) ==
  IF BlobUnreadable(line) THEN {}
  ELSE LET entries == ObjectEntries(JSONparse(line.attribute.value).value).entries
       IN  { entries[k] : k \in 1..Len(entries) }

BlobKeys(line) == { pair.key : pair \in BlobPairs(line) }

Pairs(attributes) == { attributes[k] : k \in 1..Len(attributes) }

Keys(attributes) == { attributes[k].key : k \in 1..Len(attributes) }

\* ids of the lines some invocation before the last one adjusted
AdjustedBefore ==
  UNION { { history[k].operations[o].lineExpand.cartLineId :
              o \in 1..Len(history[k].operations) } :
          k \in 1..(Len(history) - 1) }

(***************************************************************************)
(* C1  Idempotence across passes: once the operations of an invocation are *)
(* applied to the cart, a later invocation emits no operation for a line   *)
(* an earlier pass adjusted, and applying its batch leaves that line's     *)
(* unit price as it is.                                                    *)
(***************************************************************************)
SecondPassEmitsNothingForAdjusted ==
  (Returned /\ pass >= 2) =>
    \A k \in LineIndexes :
      cart[k].id \in AdjustedBefore =>
        /\ OperationsOf(cart[k]) = <<>>
        /\ ReplaceLine(cart[k], result.operations).cost = cart[k].cost

\* a second invocation has returned on a cart whose line was re-priced by the first
SecondPassOnAdjustedLine ==
  /\ Returned
  /\ pass = 2
  /\ \E k \in LineIndexes :
       /\ cart[k].id \in AdjustedBefore
       /\ cart[k].cost # history[1].lines[k].cost
       /\ cart[k].cost.amountPerQuantity.amount = "25.5"

(***************************************************************************)
(* C2  A line with a numeric signal p > 0, base unit price b and no        *)
(* processed-marker among its attributes gets exactly one operation, at    *)
(* the fixed unit price b + p.                                             *)
(***************************************************************************)
PositiveSignalGetsOneOperationAtSum ==
  Returned =>
    \A k \in LineIndexes :
      (PositiveSignal(cart[k]) /\ "_cart_transform_processed" \notin BlobKeys(cart[k])) =>
        /\ Len(OperationsOf(cart[k])) = 1
        /\ Len(OperationsOf(cart[k])[1].lineExpand.expandedCartItems) = 1
        /\ EmittedPrice(cart[k]) = Plus(BasePrice(cart[k]), SignalValue(cart[k]))

\* base 20.00 and signal "5.50" on an unmarked line gave one operation at 25.5
UnmarkedLineAdjusted ==
  /\ Returned
  /\ \E k \in LineIndexes :
       /\ cart[k].cost.amountPerQuantity.amount = "20.00"
       /\ cart[k].priceAttribute = Attribute("5.50")
       /\ "_cart_transform_processed" \notin BlobKeys(cart[k])
       /\ Len(OperationsOf(cart[k])) = 1
       /\ EmittedPrice(cart[k]) = Fin(255, 1)

ProcessedLineIsSkipped ==
  Returned =>
    \A k \in LineIndexes :
      "_cart_transform_processed" \in BlobKeys(cart[k]) => OperationsOf(cart[k]) = <<>>

\* a marked line with a positive signal has been through an invocation
MarkedLineWithPositiveSignalInvoked ==
  /\ Returned
  /\ \E k \in LineIndexes :
       /\ "_cart_transform_processed" \in BlobKeys(cart[k])
       /\ PositiveSignal(cart[k])
       /\ OperationsOf(cart[k]) = <<>>

(***************************************************************************)
(* C5  Every replacement line emitted carries the processed-marker         *)
(* attribute.                                                              *)
(***************************************************************************)
ReplacementCarriesMarker ==
  Returned =>
    \A o \in 1..Len(result.operations) :
      \A i \in 1..Len(result.operations[o].lineExpand.expandedCartItems) :
        "_cart_transform_processed" \in
          Keys(result.operations[o].lineExpand.expandedCartItems[i].attributes)

(***************************************************************************)
(* C6  An invocation on a cart with no lines returns exactly               *)
(* { operations: [] }.                                                     *)
(***************************************************************************)
EmptyCartYieldsEmptyBatch ==
  (Returned /\ cart = <<>>) => result = [operations |-> <<>>]

\* the transform has returned on the empty cart
EmptyCartInvoked ==
  /\ Returned
  /\ cart = <<>>
  /\ pass >= 1
  /\ history[pass] = [lines |-> <<>>, operations |-> <<>>]

(***************************************************************************)
(* C7  No emitted replacement's attribute list contains the processed-     *)
(* marker key or the raw additional-price key.                             *)
(***************************************************************************)
ReplacementHidesBookkeeping ==
  Returned =>
    \A o \in 1..Len(result.operations) :
      \A i \in 1..Len(result.operations[o].lineExpand.expandedCartItems) :
        Keys(result.operations[o].lineExpand.expandedCartItems[i].attributes)
          \cap {"_cart_transform_processed", "_price"} = {}

\* a line whose blob holds a _price entry was adjusted
LineWithPriceEntryAdjusted ==
  /\ Returned
  /\ \E k \in LineIndexes :
       /\ "_price" \in BlobKeys(cart[k])
       /\ Len(OperationsOf(cart[k])) = 1
       /\ Len(ReplacementOf(cart[k]).attributes) = 2

(***************************************************************************)
(* C8  The replacement's attribute list is exactly the line's parsed blob  *)
(* without the processed-marker and the additional-price entries: every    *)
(* other pair is there with its key and value, and nothing else is.        *)
(***************************************************************************)
OtherPairsCarriedThrough ==
  Returned =>
    \A k \in LineIndexes :
      OperationsOf(cart[k]) # <<>> =>
        /\ Pairs(ReplacementOf(cart[k]).attributes) =
             { pair \in BlobPairs(cart[k]) :
                 pair.key \notin {"_cart_transform_processed", "_price"} }
        /\ Len(ReplacementOf(cart[k]).attributes) =
             Cardinality(Pairs(ReplacementOf(cart[k]).attributes))

\* an adjusted line carried a hidden _note entry and a color entry through
HiddenNoteCarriedThrough ==
  /\ Returned
  /\ \E k \in LineIndexes :
       /\ OperationsOf(cart[k]) # <<>>
       /\ [key |-> "_note", value |-> JSString("gift")] \in
            Pairs(ReplacementOf(cart[k]).attributes)
       /\ [key |-> "color", value |-> JSString("red")] \in
            Pairs(ReplacementOf(cart[k]).attributes)

(***************************************************************************)
(* C9  A line whose blob is missing or unparseable is handled as a line    *)
(* with no attributes: with a numeric signal p > 0 it gets one operation   *)
(* at b + p with an empty attribute list, otherwise none.                  *)
(***************************************************************************)
UnreadableBlobIsEmptySet ==
  Returned =>
    \A k \in LineIndexes :
      BlobUnreadable(cart[k]) =>
        IF PositiveSignal(cart[k])
        THEN /\ Len(OperationsOf(cart[k])) = 1
             /\ EmittedPrice(cart[k]) = Plus(BasePrice(cart[k]), SignalValue(cart[k]))
             /\ ReplacementOf(cart[k]).attributes = <<>>
        ELSE OperationsOf(cart[k]) = <<>>

\* a line with the malformed blob "{bad" and signal "5.50" was adjusted
MalformedBlobLineAdjusted ==
  /\ Returned
  /\ \E k \in LineIndexes :
       /\ cart[k].attribute = Attribute("{bad")
       /\ cart[k].priceAttribute = Attribute("5.50")
       /\ Len(OperationsOf(cart[k])) = 1

(***************************************************************************)
(* C10  No emitted operation has a unit price that is not a finite number. *)
(***************************************************************************)
EmittedPriceIsFinite ==
  Returned =>
    \A o \in 1..Len(result.operations) :
      \A i \in 1..Len(result.operations[o].lineExpand.expandedCartItems) :
        result.operations[o].lineExpand.expandedCartItems[i]
          .price.adjustment.fixedPricePerUnit.amount.kind = "fin"

(***************************************************************************)
(* C11  A defect in one line (missing cost, missing merchandise, malformed *)
(* attributes or malformed signal) never keeps the invocation from         *)
(* returning, and the returned batch holds the operation of every other    *)
(* line that qualifies for an adjustment.                                  *)
(***************************************************************************)
HasDefect(line) ==
  \/ IsUndefined(line.cost)
  \/ IsUndefined(line.merchandise)
  \/ line.attribute = Attribute("{bad")
  \/ line.priceAttribute = Attribute("abc")

DefectIsLocal ==
  pass >= 1 =>
    /\ pc # "threw"
    /\ Returned =>
         \A k \in LineIndexes :
           (/\ ~HasDefect(cart[k])
            /\ PositiveSignal(cart[k])
            /\ "_cart_transform_processed" \notin BlobKeys(cart[k]))
             => Len(OperationsOf(cart[k])) = 1

(***************************************************************************)
(* C12  The outcome of a line depends on the line's own fields only: in    *)
(* the cart it gets what it gets as the only line of a cart, and every     *)
(* permutation of the cart's lines yields the same set of operations.      *)
(***************************************************************************)
LineOrders(n) ==
  { p \in [1..n -> 1..n] : \A i, j \in 1..n : p[i] = p[j] => i = j }

Permuted(lines, p) == [k \in 1..Len(lines) |-> lines[p[k]]]

RunOn(lines) == cartTransformRun([cart |-> [lines |-> lines]]).operations

LineIndexOf(op) == CHOOSE k \in LineIndexes : cart[k].id = op.lineExpand.cartLineId

OperationsShapedAndOrdered ==
  Returned =>
    /\ \A o \in 1..Len(result.operations) :
         LET expand == result.operations[o].lineExpand
         IN  /\ \E k \in LineIndexes : cart[k].id = expand.cartLineId
             /\ Len(expand.expandedCartItems) = 1
             /\ expand.expandedCartItems[1].merchandiseId =
                  cart[LineIndexOf(result.operations[o])].merchandise.id
             /\ expand.expandedCartItems[1].quantity = 1
    /\ \A o1, o2 \in 1..Len(result.operations) :
         o1 < o2 => LineIndexOf(result.operations[o1]) < LineIndexOf(result.operations[o2])

\* a batch of two operations, for the first and for the second line
TwoOperationsInLineOrder ==
  /\ Returned
  /\ Len(cart) = 2
  /\ Len(result.operations) = 2
  /\ result.operations[1].lineExpand.cartLineId = "gid://shopify/CartLine/1"
  /\ result.operations[2].lineExpand.cartLineId = "gid://shopify/CartLine/2"
  /\ result.operations[2].lineExpand.expandedCartItems[1].merchandiseId =
       "gid://shopify/ProductVariant/2"

SyntaxError == [thrown |-> "SyntaxError"]

\* obj.key: the property, or undefined when obj has none of that name
GetProperty(obj, key) ==
  IF \E k \in 1..Len(obj.members) : obj.members[k].key = key
  THEN obj.members[CHOOSE k \in 1..Len(obj.members) : obj.members[k].key = key].value
  ELSE undefined

\* a value used as a condition
TruthyValue(v) ==
  IF IsUndefined(v) THEN FALSE
  ELSE IF v.type = "null" THEN FALSE
  ELSE IF v.type = "string" THEN v.text # ""
  ELSE IF v.type = "boolean" THEN v.text = "true"
  ELSE IF v.type = "number" THEN parseFloat(v.text).m # 0
  ELSE TRUE

\* ${v} in a template literal (the values drawn are never arrays)
TemplateText(v) ==
  IF IsUndefined(v) THEN "undefined"
  ELSE IF v.type = "number" THEN NumberToString(parseFloat(v.text))
  ELSE IF v.type = "object" THEN "[object Object]"
  ELSE v.text

JSNumber(text) == JSValue("number", text, <<>>)

\* text.replace(/-/g, "_")
RECURSIVE ReplaceHyphens(_)
ReplaceHyphens(text) ==
  IF text = "" THEN ""
  ELSE (IF Ch(text, 1) = "-" THEN "_" ELSE Ch(text, 1)) \o
       ReplaceHyphens(SubSeq(text, 2, Len(text)))

uniqueId(prefix, option) == prefix \o ReplaceHyphens(option.id)

\* option.values ? JSON.parse(option.values) : []
parseValues(option) ==
  IF option.values = "" THEN [threw |-> FALSE, value |-> JSValue("array", "", <<>>)]
  ELSE JSONparse(option.values)

\* opt.id === dependOnOptionId && opt.type === "radio"
IsDependOption(opt, option) == opt.id = option.dependOnOptionId /\ opt.type = "radio"

\* allOptions.find(...): the first option that passes the test, or undefined
dependOption(option, allOptions) ==
  IF \E k \in 1..Len(allOptions) : IsDependOption(allOptions[k], option)
  THEN allOptions[CHOOSE k \in 1..Len(allOptions) :
                    /\ IsDependOption(allOptions[k], option)
                    /\ \A l \in 1..(k - 1) : ~IsDependOption(allOptions[l], option)]
  ELSE undefined

\* what a renderer hands back, with what it wrote to the console meanwhile
Output(html, warnings) == [html |-> html, console |-> warnings]

wrappedHtml(html, option) ==
  [class         |-> "conditional-option",
   dependOn      |-> option.dependOnOptionId,
   expectedValue |-> option.showWhenValue,
   style         |-> "display: none;",
   html          |-> html]

\* the dependency is looked up by id alone
wrapWithConditional_anyType(html, option, allOptions) ==
  IF option.dependOnOptionId = "" THEN Output(html, <<>>)
  ELSE IF option.id = option.dependOnOptionId
       THEN Output(html, <<<<"Option cannot depend on itself:", option.id>>>>)
  ELSE IF \A k \in 1..Len(allOptions) : allOptions[k].id # option.dependOnOptionId
       THEN Output(html, <<>>)
  ELSE Output(wrappedHtml(html, option), <<>>)

\* the option is not compared with its own id
wrapWithConditional_noSelfCheck(html, option, allOptions) ==
  IF option.dependOnOptionId = "" THEN Output(html, <<>>)
  ELSE IF IsUndefined(dependOption(option, allOptions))
       THEN Output(html, <<>>)
  ELSE Output(wrappedHtml(html, option), <<>>)

wrapWithConditional(html, option, allOptions) ==
  IF option.dependOnOptionId = "" THEN Output(html, <<>>)
  ELSE IF option.id = option.dependOnOptionId
       THEN Output(html, <<<<"Option cannot depend on itself:", option.id>>>>)
  ELSE IF IsUndefined(dependOption(option, allOptions))
       THEN Output(html, <<>>)
  ELSE Output(wrappedHtml(html, option), <<>>)

Input(type, id, name, value, required, choices) ==
  [type |-> type, id |-> id, name |-> name, value |-> value,
   required |-> required, choices |-> choices]

Control(class, option, dataPrice, inputs, custom) ==
  [class     |-> class,
   optionId  |-> option.id,
   dataPrice |-> dataPrice,
   label     |-> option.name,
   inputs    |-> inputs,
   custom    |-> custom]

FieldName(option) == "properties[" \o option.name \o "]"

\* option.price ? data-price="${option.price}" : ""
PriceAttribute(option) ==
  IF TruthyValue(option.price) THEN TemplateText(option.price) ELSE ""

renderTextOption(option, allOptions) ==
  wrapWithConditional(
    Control("product-option product-option--text", option, PriceAttribute(option),
            <<Input("text", "", FieldName(option), "", option.required, <<>>)>>, <<>>),
    option, allOptions)

\* the markup is handed back as it is
renderNumberOption_unwrapped(option, allOptions) ==
  Output(
    Control("product-option product-option--number", option, PriceAttribute(option),
            <<Input("number", uniqueId("number_", option), FieldName(option), "",
                    option.required, <<>>)>>, <<>>),
    <<>>)

renderNumberOption(option, allOptions) ==
  wrapWithConditional(
    Control("product-option product-option--number", option, PriceAttribute(option),
            <<Input("number", uniqueId("number_", option), FieldName(option), "",
                    option.required, <<>>)>>, <<>>),
    option, allOptions)

\* <option value="${value.label}">
Choice(value) == [value |-> TemplateText(GetProperty(value, "label")), dataPrice |-> ""]

\* <div class="custom-option" data-value="${value.label}">
CustomOption(value) == [value |-> TemplateText(GetProperty(value, "label")), dataPrice |-> ""]

dropdownHtml(option, values) ==
  Control("product-option product-option--dropdown", option, PriceAttribute(option),
          <<Input("select", uniqueId("dropdown_", option), FieldName(option), "",
                  option.required,
                  <<[value |-> "", dataPrice |-> ""]>> \o
                  [k \in 1..Len(values) |-> Choice(values[k].value)])>>,
          <<[value |-> "", dataPrice |-> ""]>> \o
          [k \in 1..Len(values) |-> CustomOption(values[k].value)])

renderDropdownFrom(option, allOptions, parsed) ==
  IF parsed.threw THEN SyntaxError
  ELSE wrapWithConditional(dropdownHtml(option, parsed.value.members), option, allOptions)

renderDropdownOption(option, allOptions) ==
  renderDropdownFrom(option, allOptions, parseValues(option))

radioHtml(option, values) ==
  Control("product-option product-option--radio", option, "",
          [index \in 1..Len(values) |->
             Input("radio", uniqueId("radio_", option) \o "_" \o ToDecimal(index - 1),
                   FieldName(option), TemplateText(GetProperty(values[index].value, "label")),
                   index - 1 = 0 /\ option.required, <<>>)],
          <<>>)

renderRadioFrom(option, allOptions, parsed) ==
  IF parsed.threw THEN SyntaxError
  ELSE wrapWithConditional(radioHtml(option, parsed.value.members), option, allOptions)

renderRadioOption(option, allOptions) ==
  renderRadioFrom(option, allOptions, parseValues(option))

\* value.price || 0
PriceOrZero(value) ==
  IF TruthyValue(GetProperty(value, "price")) THEN GetProperty(value, "price")
  ELSE JSNumber("0")

\* <option value="${value.label}" data-price="${value.price || 0}">
ThumbnailChoice(value) ==
  [value     |-> TemplateText(GetProperty(value, "label")),
   dataPrice |-> TemplateText(PriceOrZero(value))]

\* <div class="custom-option thumbnail-option" data-value=... data-price="${price}">
ThumbnailOption(value) ==
  [value     |-> TemplateText(GetProperty(value, "label")),
   dataPrice |-> NumberToString(parseFloat(TemplateText(PriceOrZero(value))))]

\* the container carries the price of the option, as a plain dropdown does
dropdownThumbnailHtml_flatPrice(option, values) ==
  Control("product-option product-option--dropdown-thumbnail", option, PriceAttribute(option),
          <<Input("select", uniqueId("dropdown_thumbnail_", option), FieldName(option), "",
                  option.required,
                  <<[value |-> "", dataPrice |-> ""]>> \o
                  [k \in 1..Len(values) |-> ThumbnailChoice(values[k].value)])>>,
          <<[value |-> "", dataPrice |-> "0"]>> \o
          [k \in 1..Len(values) |-> ThumbnailOption(values[k].value)])

dropdownThumbnailHtml(option, values) ==
  Control("product-option product-option--dropdown-thumbnail", option, "",
          <<Input("select", uniqueId("dropdown_thumbnail_", option), FieldName(option), "",
                  option.required,
                  <<[value |-> "", dataPrice |-> ""]>> \o
                  [k \in 1..Len(values) |-> ThumbnailChoice(values[k].value)])>>,
          <<[value |-> "", dataPrice |-> "0"]>> \o
          [k \in 1..Len(values) |-> ThumbnailOption(values[k].value)])

renderDropdownThumbnailFrom(option, allOptions, parsed) ==
  IF parsed.threw THEN SyntaxError
  ELSE wrapWithConditional(dropdownThumbnailHtml(option, parsed.value.members),
                           option, allOptions)

renderDropdownThumbnailOption(option, allOptions) ==
  renderDropdownThumbnailFrom(option, allOptions, parseValues(option))

\* window.OptionRenderers[option.type](option, allOptions)
OptionRenderers(option, allOptions) ==
  CASE option.type = "text"               -> renderTextOption(option, allOptions)
    [] option.type = "dropdown"           -> renderDropdownOption(option, allOptions)
    [] option.type = "dropdown_thumbnail" -> renderDropdownThumbnailOption(option, allOptions)
    [] option.type = "radio"              -> renderRadioOption(option, allOptions)
    [] option.type = "number"             -> renderNumberOption(option, allOptions)

(***************************************************************************)
(* The product page.  Loading the page calls the renderer of every option  *)
(* of the set in order and inserts the markup; an element of dom is the    *)
(* inserted fragment with the live display of its outermost element and    *)
(* whether an input of the control carries the required attribute.         *)
(***************************************************************************)
IsConditional(html) == html.class = "conditional-option"

\* the control of a fragment, inside the conditional container if any
ControlOf(html) == IF IsConditional(html) THEN html.html ELSE html

\* the fragment as the browser builds it from the markup
Insert(html) ==
  [html     |-> html,
   display  |-> IF IsConditional(html) /\ html.style = "display: none;" THEN "none" ELSE "",
   required |-> \E k \in 1..Len(ControlOf(html).inputs) : ControlOf(html).inputs[k].required]

Option(id, type, name, required, price, values, dependOnOptionId, showWhenValue) ==
  [id |-> id, type |-> type, name |-> name, required |-> required, price |-> price,
   values |-> values, dependOnOptionId |-> dependOnOptionId,
   showWhenValue |-> showWhenValue]

OptionTypes == {"text", "number", "dropdown", "dropdown_thumbnail", "radio"}

\* the radio other options depend on, and a sibling that is not a radio
FinishRadio ==
  Option("opt-finish", "radio", "Finish", FALSE, JSNull,
         "[{\"id\":\"v1\",\"label\":\"Matte\"},{\"id\":\"v2\",\"label\":\"Gloss\"}]", "", "")

NoteText == Option("opt-note", "text", "Note", FALSE, JSNull, "", "", "")

ValueLists ==
  {"[{\"id\":\"v1\",\"label\":\"Small\",\"price\":\"2.50\"},{\"id\":\"v2\",\"label\":\"Large\"}]",
   "[{\"id\":\"v1\",\"label\":\"Small\""}

\* the option under study: every type, every kind of dependency reference
ExtraOptions ==
  { Option("opt-extra", type, "Extra", required, price, values, dependOn, showWhen) :
      type \in OptionTypes, required \in BOOLEAN, price \in {JSNull, JSNumber("5")},
      values \in ValueLists \cup {""},
      dependOn \in {"", "opt-finish", "opt-extra", "opt-gone", "opt-note"},
      showWhen \in {"Matte", "Gloss"} }

OptionSets ==
  { set \in UNION { { <<extra, FinishRadio, NoteText>>,
                      <<FinishRadio, extra, NoteText>>,
                      <<FinishRadio, NoteText, extra>> } : extra \in ExtraOptions } :
      \A k \in 1..Len(set) :
        (set[k].values # "") <=> (set[k].type \in {"dropdown", "dropdown_thumbnail", "radio"}) }

InitPage ==
  /\ NoServer
  /\ NoEditor
  /\ NoActivation
  /\ NoCart
  /\ NoField
  /\ optionSet \in OptionSets
  /\ dom = <<>>
  /\ checked = [k \in 1..Len(optionSet) |-> ""]
  /\ console = <<>>
  /\ rendered = FALSE
  /\ picks = [k \in 1..Len(optionSet) |-> <<>>]
  /\ surcharge = [k \in 1..Len(optionSet) |-> Fin(0, 0)]

RECURSIVE Concat(_)
Concat(seqs) == IF seqs = <<>> THEN <<>> ELSE Head(seqs) \o Concat(Tail(seqs))

\* the outcome of the page script for the outputs of the renderers: one that
\* threw ends the script with the exception on the console
Inserted(outputs) ==
  IF \E k \in 1..Len(outputs) : Thrown(outputs[k])
  THEN /\ dom' = <<>>
       /\ console' = <<<<"Uncaught", "SyntaxError">>>>
       /\ rendered' = FALSE
  ELSE /\ dom' = [k \in 1..Len(outputs) |-> Insert(outputs[k].html)]
       /\ console' = Concat([k \in 1..Len(outputs) |-> outputs[k].console])
       /\ rendered' = TRUE

Render ==
  /\ ~rendered
  /\ console = <<>>
  /\ optionSet # <<>>
  /\ Inserted([k \in 1..Len(optionSet) |-> OptionRenderers(optionSet[k], optionSet)])
  /\ UNCHANGED <<optionSet, checked, picks, surcharge, cartVars, fieldVars, serverVars, editorVars, activationVars>>

\* the labels a radio control offers
Labels(fragment) ==
  { ControlOf(fragment.html).inputs[i].value : i \in 1..Len(ControlOf(fragment.html).inputs) }

\* the change listener re-evaluates the containers that depend on the radio
Reevaluate(fragment, radioId, label) ==
  IF IsConditional(fragment.html) /\ fragment.html.dependOn = radioId
  THEN IF label = fragment.html.expectedValue
       THEN [html |-> fragment.html, display |-> "", required |-> Insert(fragment.html).required]
       ELSE [html |-> fragment.html, display |-> "none", required |-> FALSE]
  ELSE fragment

\* the customer checks one value of a visible radio group
ChangeRadio(k, label) ==
  /\ rendered
  /\ optionSet[k].type = "radio"
  /\ dom[k].display # "none"
  /\ label \in Labels(dom[k])
  /\ checked[k] # label
  /\ checked' = [checked EXCEPT ![k] = label]
  /\ dom' = [j \in 1..Len(dom) |-> Reevaluate(dom[j], optionSet[k].id, label)]
  /\ UNCHANGED <<optionSet, console, rendered, picks, surcharge, cartVars, fieldVars, serverVars, editorVars, activationVars>>

NextPage ==
  \/ Render
  \/ \E k \in 1..Len(optionSet), label \in {"Matte", "Gloss", "Small", "Large"} :
       ChangeRadio(k, label)

SpecPage == InitPage /\ [][NextPage]_vars

(***************************************************************************)
(* Vocabulary of the properties of the rendered page.                      *)
(***************************************************************************)
\* the option with that id in the rendered set, if any
HasId(id) == { k \in 1..Len(optionSet) : optionSet[k].id = id }

DependsOnSomething(k) == optionSet[k].dependOnOptionId # ""

DependsOnItself(k) == optionSet[k].dependOnOptionId = optionSet[k].id

\* the reference names another option of the set that is a radio
DependencyResolves(k) ==
  /\ DependsOnSomething(k)
  /\ ~DependsOnItself(k)
  /\ \E d \in HasId(optionSet[k].dependOnOptionId) : optionSet[d].type = "radio"

\* the reference names no option of the set, or one that is not a radio
DependencyDangles(k) ==
  /\ DependsOnSomething(k)
  /\ ~DependsOnItself(k)
  /\ \A d \in HasId(optionSet[k].dependOnOptionId) : optionSet[d].type # "radio"

\* the class the control of each type is written with
ControlClass(type) ==
  CASE type = "text"               -> "product-option product-option--text"
    [] type = "number"             -> "product-option product-option--number"
    [] type = "dropdown"           -> "product-option product-option--dropdown"
    [] type = "dropdown_thumbnail" -> "product-option product-option--dropdown-thumbnail"
    [] type = "radio"              -> "product-option product-option--radio"

\* fragment k is the bare control of option k, on display
Unwrapped(k) ==
  /\ dom[k].html.class = ControlClass(optionSet[k].type)
  /\ dom[k].html.optionId = optionSet[k].id
  /\ dom[k].display = ""

\* the value lists the renderers can read
Readable(values) == values = "" \/ Ch(values, Len(values)) = "]"

PageScriptThrew == ~rendered /\ console # <<>>

NothingChecked == \A k \in 1..Len(checked) : checked[k] = ""

(***************************************************************************)
(* C15  An option whose dependOnOptionId names no option of the set, or an *)
(* option that is not a radio, is rendered as its bare control, visible in *)
(* every state of the page, and rendering the set raises nothing (the page *)
(* script ends early only on an unreadable value list).                    *)
(***************************************************************************)
DanglingDependencyFailsOpen ==
  /\ rendered => \A k \in 1..Len(optionSet) : DependencyDangles(k) => Unwrapped(k)
  /\ PageScriptThrew => \E k \in 1..Len(optionSet) : ~Readable(optionSet[k].values)

\* an option of each kind of dangling reference was rendered: here one that
\* depends on the text sibling, after the customer has checked a radio value
NonRadioDependencyRendered ==
  /\ rendered
  /\ ~NothingChecked
  /\ \E k \in 1..Len(optionSet) :
       /\ DependencyDangles(k)
       /\ HasId(optionSet[k].dependOnOptionId) # {}

(***************************************************************************)
(* C16  An option whose dependOnOptionId is its own id, a radio included,  *)
(* is rendered as its bare control, visible in every state of the page,    *)
(* and the console holds the warning that names it.                        *)
(***************************************************************************)
SelfDependencyIsNoDependency ==
  rendered =>
    \A k \in 1..Len(optionSet) :
      DependsOnItself(k) =>
        /\ Unwrapped(k)
        /\ \E w \in 1..Len(console) :
             console[w] = <<"Option cannot depend on itself:", optionSet[k].id>>

\* a radio that depends on itself was rendered
SelfDependentRadioRendered ==
  /\ rendered
  /\ \E k \in 1..Len(optionSet) : DependsOnItself(k) /\ optionSet[k].type = "radio"

(***************************************************************************)
(* C19  An option of any of the five types whose dependOnOptionId names    *)
(* another option of the set that is a radio is rendered as its control    *)
(* inside a conditional container whose data-depend-on is the radio's id   *)
(* and whose data-expected-value is the option's showWhenValue.            *)
(***************************************************************************)
ResolvedDependencyIsWrapped ==
  rendered =>
    \A k \in 1..Len(optionSet) :
      DependencyResolves(k) =>
        /\ dom[k].html.class = "conditional-option"
        /\ \E d \in HasId(dom[k].html.dependOn) :
             optionSet[d].type = "radio" /\ optionSet[d].id = optionSet[k].dependOnOptionId
        /\ dom[k].html.expectedValue = optionSet[k].showWhenValue
        /\ dom[k].html.html.class = ControlClass(optionSet[k].type)
        /\ dom[k].html.html.optionId = optionSet[k].id

\* a number option that depends on the radio sibling was rendered
DependentNumberRendered ==
  /\ rendered
  /\ \E k \in 1..Len(optionSet) : DependencyResolves(k) /\ optionSet[k].type = "number"

\* the label of the first value the radio option d declares
FirstLabel(d) ==
  GetProperty(JSONparse(optionSet[d].values).value.members[1].value, "label").text

Shown(k) == dom[k].display # "none"

(***************************************************************************)
(* C17  Right after rendering, before the customer has checked anything,   *)
(* an option whose dependency resolves to radio d is shown exactly when    *)
(* its showWhenValue is the label of d's first declared value.             *)
(***************************************************************************)
InitialVisibilityFollowsDefault ==
  (rendered /\ NothingChecked) =>
    \A k \in 1..Len(optionSet) :
      DependencyResolves(k) =>
        \A d \in HasId(optionSet[k].dependOnOptionId) :
          Shown(k) <=> optionSet[k].showWhenValue = FirstLabel(d)

(***************************************************************************)
(* C18  A conditional option that is hidden has no required attribute on   *)
(* its input, whatever the option declares; one that is shown has it       *)
(* exactly when the option is declared required.                           *)
(***************************************************************************)
HiddenOptionIsNotRequired ==
  rendered =>
    \A k \in 1..Len(optionSet) :
      DependencyResolves(k) =>
        /\ ~Shown(k) => ~dom[k].required
        /\ Shown(k) => (dom[k].required <=> optionSet[k].required)

(***************************************************************************)
(* The number field.  parseInt reads leading white space, a sign and the   *)
(* longest run of decimal digits, and ignores what follows; without a      *)
(* digit it gives NaN.  (A 0x prefix is not read: no entry drawn has one.) *)
(***************************************************************************)
\* integer entries range from -DeepestEntry to HighestEntry
DeepestEntry == 12

HighestEntry == 160

parseInt(s) ==
  LET start    == SkipWhiteSpace(s, 1)
      negative == Ch(s, start) = "-"
      i        == IF Ch(s, start) \in {"+", "-"} THEN start + 1 ELSE start
      intEnd   == ScanDigits(s, i)
  IN  IF intEnd = i THEN NaN
      ELSE Fin((IF negative THEN -1 ELSE 1) * DigitsValue(s, i, intEnd, 0), 0)

\* a > b for two numbers
GreaterThan(a, b) == GreaterThanZero(Plus(a, [b EXCEPT !.m = -b.m]))

NoMessage == ""

\* window.showInputMessage: the notice under the input is replaced
showInputMessage(input, message) == [input EXCEPT !.message = message]

\* only the maximum is enforced
validateNumberInput_upperOnly(input) ==
  IF input.value = "" \/ isNaN(parseInt(input.value)) THEN input
  ELSE IF GreaterThan(parseInt(input.value), Fin(99, 0))
       THEN showInputMessage([input EXCEPT !.value = NumberToString(Fin(99, 0))],
                             "Auto-corrected to maximum value: 99")
  ELSE input

validateNumberInput(input) ==
  IF input.value = "" \/ isNaN(parseInt(input.value)) THEN input
  ELSE IF GreaterThan(parseInt(input.value), Fin(99, 0))
       THEN showInputMessage([input EXCEPT !.value = NumberToString(Fin(99, 0))],
                             "Auto-corrected to maximum value: 99")
  ELSE IF GreaterThan(Fin(0, 0), parseInt(input.value))
       THEN showInputMessage([input EXCEPT !.value = NumberToString(Fin(0, 0))],
                             "Auto-corrected to minimum value: 0")
  ELSE input

\* the decimal text of an integer
IntegerText(n) == IF n < 0 THEN "-" \o ToDecimal(-n) ELSE ToDecimal(n)

\* what the field can hold when the handler runs: integers, the empty
\* field, and numbers with a fraction or an exponent
Entries ==
  { IntegerText(n) : n \in -DeepestEntry..HighestEntry } \cup
  { "", "99.5", "150.7", "-0.5", "-3.2", "1e3", "7.0" }

InitField ==
  /\ NoServer
  /\ NoEditor
  /\ NoActivation
  /\ NoCart
  /\ NoPage
  /\ numberEntry = ""
  /\ numberValue = ""
  /\ inputMessage = NoMessage

\* the value and the notice after the handler
Validated(input) ==
  /\ numberValue' = input.value
  /\ inputMessage' = input.message

\* oninput / onblur: the handler runs on what the field holds
InputNumber(entry) ==
  /\ numberEntry' = entry
  /\ Validated(validateNumberInput([value |-> entry, message |-> inputMessage]))
  /\ UNCHANGED <<cartVars, pageVars, serverVars, editorVars, activationVars>>

\* the timer of showInputMessage removes the notice
RemoveMessage ==
  /\ inputMessage # NoMessage
  /\ inputMessage' = NoMessage
  /\ UNCHANGED <<numberEntry, numberValue, cartVars, pageVars, serverVars, editorVars, activationVars>>

NextField ==
  \/ \E entry \in Entries : InputNumber(entry)
  \/ RemoveMessage

SpecField == InitField /\ [][NextField]_vars

(***************************************************************************)
(* C20  After the handler has run on an integer entry n the field holds    *)
(* 99 when n > 99, 0 when n < 0 and n itself otherwise, so it holds an     *)
(* integer of [0, 99].                                                     *)
(***************************************************************************)
IntegerEntryIsClamped ==
  \A n \in -DeepestEntry..HighestEntry :
    numberEntry = IntegerText(n) =>
      /\ numberValue = IntegerText(IF n > 99 THEN 99 ELSE IF n < 0 THEN 0 ELSE n)
      /\ \E v \in 0..99 : numberValue = IntegerText(v)

\* 150 was entered and the field holds 99 with the notice, or -5 and 0
OutOfRangeEntryValidated ==
  \/ numberEntry = "150" /\ numberValue = "99" /\ inputMessage # NoMessage
  \/ numberEntry = "-5" /\ numberValue = "0" /\ inputMessage # NoMessage

(***************************************************************************)
(* Selections.  The customer picks a value in a visible select; the        *)
(* summation script recomputes the surcharge of that option from the data  *)
(* attributes the renderer wrote: the data-price of the container and the  *)
(* data-price of the picked <option>.                                      *)
(***************************************************************************)
MaxPicks == 3

\* the select of a control, or undefined when it has none
SelectOf(fragment) ==
  IF ControlOf(fragment.html).inputs # <<>> /\ ControlOf(fragment.html).inputs[1].type = "select"
  THEN ControlOf(fragment.html).inputs[1]
  ELSE undefined

\* the <option> of the select whose value is picked
ChoiceOf(select, value) ==
  select.choices[CHOOSE c \in 1..Len(select.choices) :
                   /\ select.choices[c].value = value
                   /\ \A b \in 1..(c - 1) : select.choices[b].value # value]

\* a data-price attribute as a number: one that is not written counts 0
PriceOf(dataPrice) == IF dataPrice = "" THEN Fin(0, 0) ELSE parseFloat(dataPrice)

\* the surcharge of an option once value is picked in its select
SurchargeAfter(previous, fragment, value) ==
  Plus(IF value = "" THEN Fin(0, 0) ELSE PriceOf(ControlOf(fragment.html).dataPrice),
       PriceOf(ChoiceOf(SelectOf(fragment), value).dataPrice))

SelectChoice(k, value) ==
  /\ rendered
  /\ dom[k].display # "none"
  /\ ~IsUndefined(SelectOf(dom[k]))
  /\ Len(picks[k]) < MaxPicks
  /\ \E c \in 1..Len(SelectOf(dom[k]).choices) : SelectOf(dom[k]).choices[c].value = value
  /\ picks[k] # <<>> => picks[k][Len(picks[k])] # value
  /\ picks' = [picks EXCEPT ![k] = Append(@, value)]
  /\ surcharge' = [surcharge EXCEPT ![k] = SurchargeAfter(@, dom[k], value)]
  /\ UNCHANGED <<optionSet, dom, checked, console, rendered, cartVars, fieldVars, serverVars, editorVars, activationVars>>

NextSelecting ==
  \/ Render
  \/ \E k \in 1..Len(optionSet), label \in {"Matte", "Gloss", "Small", "Large"} :
       ChangeRadio(k, label)
  \/ \E k \in 1..Len(optionSet), value \in {"", "Small", "Large"} : SelectChoice(k, value)

SpecSelecting == InitPage /\ [][NextSelecting]_vars

\* the value picked last in the select of option k ("" when none is)
Selected(k) == IF picks[k] = <<>> THEN "" ELSE picks[k][Len(picks[k])]

\* the declared price of the value of option k with that label, 0 without one
DeclaredPrice(k, label) ==
  LET values == JSONparse(optionSet[k].values).value.members
      at     == { i \in 1..Len(values) : GetProperty(values[i].value, "label").text = label }
  IN  IF at = {} THEN Fin(0, 0)
      ELSE LET price == GetProperty(values[CHOOSE i \in at : TRUE].value, "price")
           IN  IF IsUndefined(price) THEN Fin(0, 0) ELSE parseFloat(price.text)

(***************************************************************************)
(* C21  The surcharge of a dropdown_thumbnail option is, after every       *)
(* sequence of picks, the declared price of the value picked last, and 0   *)
(* when nothing is picked or that value declares no price; the option's    *)
(* own price and the prices of values picked earlier are no part of it.    *)
(***************************************************************************)
ThumbnailSurchargeIsSelectedPrice ==
  rendered =>
    \A k \in 1..Len(optionSet) :
      optionSet[k].type = "dropdown_thumbnail" =>
        surcharge[k] = DeclaredPrice(k, Selected(k))

\* a thumbnail option with a flat price of its own: the priced value was
\* picked, then the one without a price
PricedThenUnpricedPicked ==
  /\ rendered
  /\ \E k \in 1..Len(optionSet) :
       /\ optionSet[k].type = "dropdown_thumbnail"
       /\ TruthyValue(optionSet[k].price)
       /\ picks[k] = <<"Small", "Large">>
       /\ surcharge[k] = Fin(0, 0)

(***************************************************************************)
(* The read path of the storefront: the loader of api.options-active.      *)
(* A URL parameter or a nullable column is null or has a text.  A stored   *)
(* option set is [id, shop, name, active, applyToAll, productTags,         *)
(* options].                                                               *)
(***************************************************************************)
\* text.split(","): the pieces between the commas, from position i, piece begun
RECURSIVE Split(_, _, _)
Split(text, i, piece) ==
  IF i > Len(text) THEN <<piece>>
  ELSE IF Ch(text, i) = "," THEN <<piece>> \o Split(text, i + 1, "")
  ELSE Split(text, i + 1, piece \o Ch(text, i))

\* tag.trim()
RECURSIVE trim(_)
trim(text) ==
  IF text = "" THEN ""
  ELSE IF IsStrWhiteSpace(Ch(text, 1)) THEN trim(SubSeq(text, 2, Len(text)))
  ELSE IF IsStrWhiteSpace(Ch(text, Len(text))) THEN trim(SubSeq(text, 1, Len(text) - 1))
  ELSE text

\* text.split(",").map((tag) => tag.trim())
SplitTags(text) == [k \in 1..Len(Split(text, 1, "")) |-> trim(Split(text, 1, "")[k])]

\* array.includes(element)
includes(array, element) == \E k \in 1..Len(array) : array[k] = element

OptionSet(id, shop, active, applyToAll, productTags, options) ==
  [id |-> id, shop |-> shop, name |-> "Set " \o id, active |-> active,
   applyToAll |-> applyToAll, productTags |-> productTags, options |-> options]

\* the callback of optionSets.filter
tagFilter(set, tagsArray) ==
  IF set.applyToAll THEN TRUE
  ELSE IF Truthy(set.productTags)
       THEN \E r \in 1..Len(SplitTags(set.productTags.value)) :
              includes(tagsArray, SplitTags(set.productTags.value)[r])
  ELSE FALSE

\* prisma.productOptionSet.findMany({ where: { shop, active: true } })
findManyActive(sets, shop) ==
  SelectSeq(sets, LAMBDA set : set.shop = shop /\ set.active)

filterByTags(optionSets, tagsArray) ==
  SelectSeq(optionSets, LAMBDA set : tagFilter(set, tagsArray))

loader(sets, shop, productTags, dbFails) ==
  IF ~Truthy(shop) THEN [error |-> "Shop parameter is required", status |-> 400]
  ELSE IF dbFails THEN [error |-> "Failed to fetch active options", status |-> 500]
  ELSE IF Truthy(productTags)
       THEN [optionSets |-> filterByTags(findManyActive(sets, shop.value),
                                         SplitTags(productTags.value))]
  ELSE [optionSets |-> findManyActive(sets, shop.value)]

Shops == {"a.myshopify.com", "b.myshopify.com"}

SetTags == {NullAttribute, Attribute("gift"), Attribute("gift, sale")}

ProductTags == {NullAttribute, Attribute(""), Attribute("gift"), Attribute("vip"),
                Attribute("vip,sale")}

\* the stored sets: two sets, each of any shop, status, scope and tags
Stores ==
  { <<OptionSet("set-1", s1, a1, all1, t1, <<>>),
      OptionSet("set-2", s2, a2, all2, t2, <<>>)>> :
      s1 \in Shops, s2 \in Shops, a1 \in BOOLEAN, a2 \in {TRUE},
      all1 \in BOOLEAN, all2 \in BOOLEAN, t1 \in SetTags, t2 \in SetTags }

InitLoader ==
  /\ NoCart
  /\ NoEditor
  /\ NoActivation
  /\ NoPage
  /\ NoField
  /\ store \in Stores
  /\ request = <<>>
  /\ response = <<>>

\* GET /api/options-active?shop=...&productTags=...
Load(shop, productTags, dbFails) ==
  /\ request' = [route |-> "api.options-active", shop |-> shop, productTags |-> productTags]
  /\ response' = loader(store, shop, productTags, dbFails)
  /\ UNCHANGED <<store, cartVars, pageVars, fieldVars, editorVars, activationVars>>

NextLoader ==
  \E shop \in {NullAttribute} \cup { Attribute(s) : s \in Shops },
     productTags \in ProductTags, dbFails \in BOOLEAN :
    Load(shop, productTags, dbFails)

SpecLoader == InitLoader /\ [][NextLoader]_vars

\* the tags a tag text names
TagSet(tags) ==
  IF tags.isNull THEN {}
  ELSE CASE tags.value = ""           -> {}
         [] tags.value = "gift"       -> {"gift"}
         [] tags.value = "vip"        -> {"vip"}
         [] tags.value = "gift, sale" -> {"gift", "sale"}
         [] tags.value = "vip,sale"   -> {"vip", "sale"}

Loaded == request # <<>> /\ request.route = "api.options-active" /\ "optionSets" \in DOMAIN response

\* the set is active, of the shop asked for, and for all products or tagged
\* with one of the product's tags
AppliesToRequest(set) ==
  /\ set.active
  /\ set.shop = request.shop.value
  /\ set.applyToAll \/ TagSet(set.productTags) \cap TagSet(request.productTags) # {}

(***************************************************************************)
(* C22  The loader returns exactly the active option sets of the shop that *)
(* apply to the product: those for all products and those with a tag among *)
(* the product's tags; a tag-gated set is left out when the product has    *)
(* none of its tags, also when the request names no product tags.          *)
(***************************************************************************)
LoaderReturnsApplicableSets ==
  Loaded =>
    \A s \in 1..Len(store) :
      includes(response.optionSets, store[s]) <=> AppliesToRequest(store[s])

\* the same, for requests that name at least one product tag
LoaderFiltersTaggedRequests ==
  (Loaded /\ Truthy(request.productTags)) =>
    \A s \in 1..Len(store) :
      includes(response.optionSets, store[s]) <=> AppliesToRequest(store[s])

(***************************************************************************)
(* The option-set editor.  An option configuration is [id, type, name,     *)
(* required, values, dependOnOptionId, showWhenValue]; values is the list  *)
(* of [id, label] of the option.  crypto.randomUUID() is the next unused   *)
(* identifier.                                                             *)
(***************************************************************************)
MaxConfigs == 2

MaxUuids == 3

randomUUID(n) == "uuid-" \o ToDecimal(n + 1)

Config(id, type, name, values, dependOnOptionId, showWhenValue) ==
  [id |-> id, type |-> type, name |-> name, required |-> FALSE, values |-> values,
   dependOnOptionId |-> dependOnOptionId, showWhenValue |-> showWhenValue]

\* the values a new option of the type starts with
defaultValues(type, n) ==
  IF type \in {"dropdown", "dropdown_thumbnail", "radio"}
  THEN <<[id |-> randomUUID(n + 1), label |-> "Option 1"]>>
  ELSE <<>>

\* the UUIDs drawn for a new option of the type
Drawn(type) == IF type \in {"dropdown", "dropdown_thumbnail", "radio"} THEN 2 ELSE 1

\* a type already present is removed, else an option of the type is added
handleOptionTypeSelect(prev, type, n) ==
  IF \E k \in 1..Len(prev) : prev[k].type = type
  THEN SelectSeq(prev, LAMBDA config : config.type # type)
  ELSE Append(prev, Config(randomUUID(n), type, type \o " Option",
                           defaultValues(type, n), "", ""))

handleRemoveExistingOption(prev, optionId) ==
  SelectSeq(prev, LAMBDA config : config.id # optionId)

handleDuplicateOption(prev, optionToDuplicate, n) ==
  Append(prev, Config(randomUUID(n), optionToDuplicate.type,
                      optionToDuplicate.type \o " Option",
                      defaultValues(optionToDuplicate.type, n), "", ""))

handleUpdateOption(prev, updatedConfig) ==
  [k \in 1..Len(prev) |-> IF prev[k].id = updatedConfig.id THEN updatedConfig ELSE prev[k]]

\* allOptions.filter((opt) => opt.type === "radio")
radioOptions(config, allOptions) ==
  SelectSeq(allOptions, LAMBDA opt : opt.type = "radio")

\* radioOptions.findIndex((opt) => opt.id === id), counted from 0
findIndex(options, id) ==
  IF \E k \in 1..Len(options) : options[k].id = id
  THEN (CHOOSE k \in 1..Len(options) :
          options[k].id = id /\ \A l \in 1..(k - 1) : options[l].id # id) - 1
  ELSE -1

\* the radio the condition row shows: the one depended on, else the first
selectedOption(config, radios) ==
  IF config.dependOnOptionId # "" /\ findIndex(radios, config.dependOnOptionId) >= 0
  THEN radios[findIndex(radios, config.dependOnOptionId) + 1]
  ELSE radios[1]

\* onChange of the value select of the condition row
showWhenChanged(config, radios, value) ==
  [config EXCEPT !.dependOnOptionId = selectedOption(config, radios).id,
                 !.showWhenValue = value]

\* onClick of "Switch to the next radio button"
switchedToNext(config, radios) ==
  LET currentIndex == IF config.dependOnOptionId # ""
                      THEN findIndex(radios, config.dependOnOptionId) ELSE 0
      nextOption   == radios[((currentIndex + 1) % Len(radios)) + 1]
  IN  [config EXCEPT !.dependOnOptionId = nextOption.id,
                     !.showWhenValue = IF nextOption.values = <<>> THEN ""
                                       ELSE nextOption.values[1].label]

\* the auto-linking of parseExcelFile: with a radio of exactly two values in
\* the set, every option but a dropdown_thumbnail is made to depend on it
autoLink(options) ==
  IF \E k \in 1..Len(options) : options[k].type = "radio" /\ Len(options[k].values) = 2
  THEN LET radio == options[CHOOSE k \in 1..Len(options) :
                              /\ options[k].type = "radio" /\ Len(options[k].values) = 2
                              /\ \A l \in 1..(k - 1) :
                                   ~(options[l].type = "radio" /\ Len(options[l].values) = 2)]
       IN  [k \in 1..Len(options) |->
              IF options[k].type = "dropdown_thumbnail" THEN options[k]
              ELSE [options[k] EXCEPT
                      !.showWhenValue =
                         IF options[k].type = "dropdown" THEN radio.values[1].label
                         ELSE IF options[k].type \in {"text", "number"}
                              THEN radio.values[2].label
                         ELSE @,
                      !.dependOnOptionId = radio.id]]
  ELSE options

\* option lists as the rows of a sheet give them
SheetRadio(id, labels) ==
  Config(id, "radio", "Finish",
         [k \in 1..Len(labels) |-> [id |-> id \o "-" \o ToDecimal(k), label |-> labels[k]]],
         "", "")

Sheets ==
  { <<SheetRadio("r1", <<"Matte", "Gloss">>), Config("d1", "dropdown", "Size", <<>>, "", ""),
      Config("t1", "text", "Note", <<>>, "", "")>>,
    <<Config("h1", "dropdown_thumbnail", "Colour", <<>>, "", ""),
      SheetRadio("r1", <<"Matte", "Gloss">>)>>,
    <<SheetRadio("r1", <<"Matte", "Gloss", "Satin">>),
      Config("n1", "number", "Count", <<>>, "", "")>>,
    <<SheetRadio("r1", <<"Matte", "Gloss", "Satin">>), SheetRadio("r2", <<"Matte">>),
      Config("t1", "text", "Note", <<>>, "", "")>>,
    <<Config("t1", "text", "Note", <<>>, "", "")>> }

InitEditor ==
  /\ NoActivation
  /\ NoCart
  /\ NoPage
  /\ NoField
  /\ NoServer
  /\ optionConfigs = <<>>
  /\ uuids = 0

Unedited == UNCHANGED <<cartVars, pageVars, fieldVars, serverVars, activationVars>>

SelectOptionType(type) ==
  /\ \/ \E k \in 1..Len(optionConfigs) : optionConfigs[k].type = type
     \/ Len(optionConfigs) < MaxConfigs /\ uuids + Drawn(type) <= MaxUuids
  /\ optionConfigs' = handleOptionTypeSelect(optionConfigs, type, uuids)
  /\ uuids' = IF \E k \in 1..Len(optionConfigs) : optionConfigs[k].type = type
              THEN uuids ELSE uuids + Drawn(type)
  /\ Unedited

RemoveOption(k) ==
  /\ optionConfigs' = handleRemoveExistingOption(optionConfigs, optionConfigs[k].id)
  /\ UNCHANGED uuids
  /\ Unedited

DuplicateOption(k) ==
  /\ Len(optionConfigs) < MaxConfigs
  /\ uuids + Drawn(optionConfigs[k].type) <= MaxUuids
  /\ optionConfigs' = handleDuplicateOption(optionConfigs, optionConfigs[k], uuids)
  /\ uuids' = uuids + Drawn(optionConfigs[k].type)
  /\ Unedited

ToggleRequired(k) ==
  /\ optionConfigs' = handleUpdateOption(optionConfigs,
                        [optionConfigs[k] EXCEPT !.required = ~@])
  /\ UNCHANGED uuids
  /\ Unedited

ChangeShowWhen(k, value) ==
  /\ optionConfigs[k].type # "radio"
  /\ radioOptions(optionConfigs[k], optionConfigs) # <<>>
  /\ \/ value = ""
     \/ \E v \in 1..Len(selectedOption(optionConfigs[k],
                          radioOptions(optionConfigs[k], optionConfigs)).values) :
          selectedOption(optionConfigs[k],
                         radioOptions(optionConfigs[k], optionConfigs)).values[v].label = value
  /\ optionConfigs' = handleUpdateOption(optionConfigs,
                        showWhenChanged(optionConfigs[k],
                                        radioOptions(optionConfigs[k], optionConfigs), value))
  /\ UNCHANGED uuids
  /\ Unedited

SwitchToNextRadio(k) ==
  /\ optionConfigs[k].type # "radio"
  /\ Len(radioOptions(optionConfigs[k], optionConfigs)) > 1
  /\ optionConfigs' = handleUpdateOption(optionConfigs,
                        switchedToNext(optionConfigs[k],
                                       radioOptions(optionConfigs[k], optionConfigs)))
  /\ UNCHANGED uuids
  /\ Unedited

\* a sheet is parsed and its set opened in the editor
ParseExcel(sheet) ==
  /\ optionConfigs = <<>>
  /\ uuids = 0
  /\ optionConfigs' = autoLink(sheet)
  /\ UNCHANGED uuids
  /\ Unedited

NextEditor ==
  \/ \E type \in OptionTypes : SelectOptionType(type)
  \/ \E k \in 1..Len(optionConfigs) : RemoveOption(k)
  \/ \E k \in 1..Len(optionConfigs) : DuplicateOption(k)
  \/ \E k \in 1..Len(optionConfigs) : ToggleRequired(k)
  \/ \E k \in 1..Len(optionConfigs), value \in {"", "Option 1", "Matte", "Gloss"} :
       ChangeShowWhen(k, value)
  \/ \E k \in 1..Len(optionConfigs) : SwitchToNextRadio(k)
  \/ \E sheet \in Sheets : ParseExcel(sheet)

SpecEditor == InitEditor /\ [][NextEditor]_vars

\* configuration k depends on nothing, or on another configuration of the
\* set that is a radio
DependencyWellFormed(configs, k) ==
  \/ configs[k].dependOnOptionId = ""
  \/ \E d \in 1..Len(configs) :
       /\ d # k
       /\ configs[d].id = configs[k].dependOnOptionId
       /\ configs[d].id # configs[k].id
       /\ configs[d].type = "radio"

(***************************************************************************)
(* C23  After every sequence of editor operations, each option's           *)
(* dependOnOptionId is empty or the id of another option of the set that   *)
(* is a radio.                                                             *)
(***************************************************************************)
DependenciesStayWellFormed ==
  \A k \in 1..Len(optionConfigs) : DependencyWellFormed(optionConfigs, k)

\* ---------------------------------------------------------------------------
\* Cart transform activation (app/utils/cart-transform.server.ts)
\* ---------------------------------------------------------------------------

\* most user errors one mutation answer carries
MaxUserErrors == 2

\* String.prototype.includes
stringIncludes(text, needle) ==
  \E i \in 1..(Len(text) - Len(needle) + 1) :
    SubSeq(text, i, i + Len(needle) - 1) = needle

\* Array.prototype.join
RECURSIVE join(_, _)
join(texts, separator) ==
  IF texts = <<>> THEN ""
  ELSE IF Len(texts) = 1 THEN texts[1]
  ELSE texts[1] \o separator \o join(Tail(texts), separator)

\* admin.graphql(...) rejected, or response.json() failed; isError tells
\* whether the thrown value is an instance of Error
Rejected(isError, message) ==
  [kind |-> "throws", isError |-> isError, message |-> message]

\* a JSON answer without the data the code reads (data?.x is undefined)
NoData == [kind |-> "noData"]

\* a connection answer { data: { ...: { edges } } }
Edges(edges) == [kind |-> "edges", edges |-> edges]

\* an edge whose node is null, and an edge { node: { id, apiType } }
NullNode == [isNull |-> TRUE]

Node(id, apiType) == [isNull |-> FALSE, id |-> id, apiType |-> apiType]

\* the answer { data: { cartTransformCreate: { cartTransform, userErrors } } }
Created(hasCartTransform, userErrors) ==
  [kind |-> "payload", cartTransform |-> hasCartTransform, userErrors |-> userErrors]

\* checkCartTransformStatus: true iff the query answered with at least one
\* edge; any exception is caught and reported as false
checkCartTransformStatus(existingData) ==
  IF existingData.kind = "throws" THEN FALSE
  ELSE IF existingData.kind = "noData" THEN FALSE
  ELSE Len(existingData.edges) > 0

\* edges.find(edge => edge.node.apiType === "cart_transform"): the first
\* match, undefined when there is none, a TypeError when a null node is
\* reached first
RECURSIVE findCartTransformFunction(_)
findCartTransformFunction(edges) ==
  IF edges = <<>> THEN undefined
  ELSE IF Head(edges).isNull THEN TypeError
  ELSE IF Head(edges).apiType = "cart_transform" THEN Head(edges)
  ELSE findCartTransformFunction(Tail(edges))

\* getCartTransformFunctionId: the id of the first cart_transform function,
\* null when there is none or when anything throws
functionIdOf(cartTransformFunction) ==
  IF Thrown(cartTransformFunction) THEN NullAttribute
  ELSE IF IsUndefined(cartTransformFunction) THEN NullAttribute
  ELSE Attribute(cartTransformFunction.id)

getCartTransformFunctionId(functionsData) ==
  IF functionsData.kind = "throws" THEN NullAttribute
  ELSE IF functionsData.kind = "noData" THEN NullAttribute
  ELSE functionIdOf(findCartTransformFunction(functionsData.edges))

isDuplicateMessage_none(message) == FALSE

\* the test of lines 126-129 on one user error message
isDuplicateMessage(message) ==
  \/ stringIncludes(message, "already registered")
  \/ stringIncludes(message, "already exists")
  \/ stringIncludes(message, "already active")
  \/ stringIncludes(message, "duplicate")

\* the messages pushed to errorMessages by the forEach of lines 125-136
errorMessages(errors) ==
  SelectSeq(errors, LAMBDA message : ~isDuplicateMessage(message))

Success(message) == [success |-> TRUE, message |-> message]

Failure(error) == [success |-> FALSE, error |-> error]

\* executeCartTransformActivation
executeCartTransformActivation(mutationAnswer) ==
  IF mutationAnswer.kind = "throws"
  THEN Failure(IF mutationAnswer.isError THEN mutationAnswer.message
               ELSE "Unknown error")
  ELSE IF mutationAnswer.kind = "payload" /\ Len(mutationAnswer.userErrors) > 0
  THEN IF errorMessages(mutationAnswer.userErrors) # <<>>
       THEN Failure(join(errorMessages(mutationAnswer.userErrors), "; "))
       ELSE Success("Cart Transform already activated")
  ELSE IF mutationAnswer.kind = "payload" /\ mutationAnswer.cartTransform
  THEN Success("Cart Transform activated successfully")
  ELSE Failure("Unexpected response structure")

\* retries allowed after the first attempt
maxRetries == 3

shouldRetry_inclusive(retryCount) == retryCount <= maxRetries

\* the test of line 205
shouldRetry(retryCount) == retryCount < maxRetries

\* the texts manualActivateCartTransform returns (English renderings of the
\* literals of lines 244, 253, 263 and 268)
ManualAlreadyActivated == "Cart Transform is already activated"

ManualNoFunction == "Cannot find the Cart Transform function"

ManualActivated == "Cart Transform activated"

ManualFailed == "Activation failed"

afterStatusCheck_proceeds(isAlreadyActivated) == "function"

\* where an attempt goes after the status check (lines 186-189, 241-246)
afterStatusCheck(isAlreadyActivated) ==
  IF isAlreadyActivated THEN "returned" ELSE "function"

\* the boolean activateCartTransform resolves to
Returns(value) == [returns |-> value]

\* what each entry point returns when the transform is already registered
alreadyActivated(entry) ==
  IF entry = "activateCartTransform" THEN Returns(TRUE)
  ELSE Success(ManualAlreadyActivated)

\* what each entry point returns when no function id is found
noFunctionId(entry) ==
  IF entry = "activateCartTransform" THEN Returns(FALSE)
  ELSE Failure(ManualNoFunction)

\* manualActivateCartTransform's return for the mutation result (260-270)
manualResult(activationResult) ==
  IF activationResult.success
  THEN Success(IF activationResult.message # "" THEN activationResult.message
               ELSE ManualActivated)
  ELSE Failure(IF activationResult.error # "" THEN activationResult.error
               ELSE ManualFailed)

\* a call of an entry point at its first statement
Attempt(entry, retryCount) ==
  [entry |-> entry, stage |-> "check", retryCount |-> retryCount,
   existingData |-> <<>>, isAlreadyActivated |-> FALSE,
   functionsData |-> <<>>, functionId |-> NullAttribute,
   mutationAnswer |-> <<>>, result |-> <<>>, value |-> <<>>]

\* one admin.graphql call of the log
Call(query, retryCount, ok) ==
  [query |-> query, retryCount |-> retryCount, ok |-> ok]

\* the answers the admin API can give to each query
Thrown2 == {Rejected(TRUE, "fetch failed"), Rejected(FALSE, "")}

StatusAnswers ==
  Thrown2 \cup {NoData, Edges(<<>>),
                Edges(<<Node("gid://shopify/CartTransform/1", "")>>)}

FunctionAnswers ==
  Thrown2 \cup
  {NoData, Edges(<<>>),
   Edges(<<Node("gid://shopify/ShopifyFunction/1", "product_discounts")>>),
   Edges(<<Node("gid://shopify/ShopifyFunction/1", "product_discounts"),
           Node("gid://shopify/ShopifyFunction/2", "cart_transform")>>),
   Edges(<<NullNode, Node("gid://shopify/ShopifyFunction/2", "cart_transform")>>),
   Edges(<<Node("gid://shopify/ShopifyFunction/2", "cart_transform"), NullNode>>)}

UserErrorMessages ==
  {"Function is already registered", "Cart transform already exists",
   "Transform already active", "duplicate function",
   "Function not found", "Access denied"}

UserErrors ==
  UNION { [1..n -> UserErrorMessages] : n \in 0..MaxUserErrors }

MutationAnswers ==
  Thrown2 \cup {NoData} \cup
  { Created(hasCartTransform, userErrors) :
      hasCartTransform \in BOOLEAN, userErrors \in UserErrors }

InitActivation ==
  /\ NoCart
  /\ NoPage
  /\ NoField
  /\ NoServer
  /\ NoEditor
  /\ activation \in { Attempt(entry, 0) :
                        entry \in {"activateCartTransform",
                                   "manualActivateCartTransform"} }
  /\ adminCalls = <<>>

Inactive == UNCHANGED <<cartVars, pageVars, fieldVars, serverVars, editorVars>>

\* const isAlreadyActivated = await checkCartTransformStatus(admin), and the
\* early return that follows
CheckStatus(existingData) ==
  /\ activation # <<>>
  /\ activation.stage = "check"
  /\ LET isAlreadyActivated == checkCartTransformStatus(existingData)
         next == afterStatusCheck(isAlreadyActivated)
     IN /\ activation' =
             [activation EXCEPT !.existingData = existingData,
                                !.isAlreadyActivated = isAlreadyActivated,
                                !.stage = next,
                                !.value = IF next = "returned"
                                          THEN alreadyActivated(activation.entry)
                                          ELSE @]
        /\ adminCalls' = Append(adminCalls,
             Call("cartTransforms", activation.retryCount, isAlreadyActivated))
  /\ Inactive

\* const functionId = await getCartTransformFunctionId(admin), and the early
\* return that follows
QueryFunctionId(functionsData) ==
  /\ activation # <<>>
  /\ activation.stage = "function"
  /\ LET functionId == getCartTransformFunctionId(functionsData)
     IN /\ activation' =
             [activation EXCEPT !.functionsData = functionsData,
                                !.functionId = functionId,
                                !.stage = IF functionId.isNull THEN "returned"
                                          ELSE "mutate",
                                !.value = IF functionId.isNull
                                          THEN noFunctionId(activation.entry)
                                          ELSE @]
        /\ adminCalls' = Append(adminCalls,
             Call("shopifyFunctions", activation.retryCount, ~functionId.isNull))
  /\ Inactive

\* const result = await executeCartTransformActivation(admin, functionId),
\* and what the entry point does with it
afterActivation(current, activationResult) ==
  IF current.entry = "manualActivateCartTransform"
  THEN [current EXCEPT !.stage = "returned",
                       !.value = manualResult(activationResult)]
  ELSE IF activationResult.success
  THEN [current EXCEPT !.stage = "returned", !.value = Returns(TRUE)]
  ELSE IF shouldRetry(current.retryCount)
  THEN [current EXCEPT !.stage = "wait"]
  ELSE [current EXCEPT !.stage = "returned", !.value = Returns(FALSE)]

ExecuteActivation(mutationAnswer) ==
  /\ activation # <<>>
  /\ activation.stage = "mutate"
  /\ LET activationResult == executeCartTransformActivation(mutationAnswer)
     IN /\ activation' =
             afterActivation([activation EXCEPT !.mutationAnswer = mutationAnswer,
                                                !.result = activationResult],
                             activationResult)
        /\ adminCalls' = Append(adminCalls,
             Call("cartTransformCreate", activation.retryCount,
                  activationResult.success))
  /\ Inactive

\* the 2 s timer fires: return await activateCartTransform(admin, shop,
\* retryCount + 1)
Retry ==
  /\ activation # <<>>
  /\ activation.stage = "wait"
  /\ activation' = Attempt(activation.entry, activation.retryCount + 1)
  /\ UNCHANGED adminCalls
  /\ Inactive

NextActivation ==
  \/ \E existingData \in StatusAnswers : CheckStatus(existingData)
  \/ \E functionsData \in FunctionAnswers : QueryFunctionId(functionsData)
  \/ \E mutationAnswer \in MutationAnswers : ExecuteActivation(mutationAnswer)
  \/ Retry

\* every admin call settles and the retry timer fires
SpecActivation ==
  InitActivation /\ [][NextActivation]_vars /\ WF_vars(NextActivation)

\* the positions of the log that hold a call of the given query
CallsOf(query) == { k \in DOMAIN adminCalls : adminCalls[k].query = query }

\* the value an entry point returned reports success
ReportsSuccess ==
  IF activation.entry = "activateCartTransform" THEN activation.value.returns
  ELSE activation.value.success

\* C24: activateCartTransform always returns, after at most 4 attempts (4
\* status checks, hence at most 4 create mutations), whatever the admin API
\* answers or throws; it returns true iff some attempt found a cart transform
\* registered or had its create mutation reported successful.
ActivationReturnsWithinFourAttempts ==
  /\ [](IF activation.entry # "activateCartTransform" THEN TRUE
        ELSE /\ Cardinality(CallsOf("cartTransforms")) <= 4
             /\ Cardinality(CallsOf("cartTransformCreate")) <= 4
             /\ IF activation.stage # "returned" THEN TRUE
                ELSE /\ activation.value.returns \in BOOLEAN
                     /\ activation.value.returns <=>
                          \E k \in CallsOf("cartTransforms")
                                     \cup CallsOf("cartTransformCreate") :
                            adminCalls[k].ok)
  /\ <>(activation.stage = "returned")

\* the fourth attempt's mutation failed too and false was returned
FourthAttemptFailed ==
  /\ activation.entry = "activateCartTransform"
  /\ activation.stage = "returned"
  /\ ~activation.value.returns
  /\ activation.retryCount = 3
  /\ Cardinality(CallsOf("cartTransformCreate")) = 4

\* C25: once a status check has reported a registered cart transform, no
\* cartTransformCreate mutation is issued any more and the entry point
\* returns success; once the function id query has found no id, nothing more
\* is issued (no mutation, no retry) and the entry point returns failure.
ActivationIsIdempotent ==
  /\ \A k \in CallsOf("cartTransforms") :
       adminCalls[k].ok =>
         /\ k = Len(adminCalls)
         /\ activation.stage = "returned"
         /\ ReportsSuccess
  /\ \A k \in CallsOf("shopifyFunctions") :
       ~adminCalls[k].ok =>
         /\ k = Len(adminCalls)
         /\ activation.stage = "returned"
         /\ ~ReportsSuccess

\* a retry, after a failed mutation, found the transform registered
RegisteredFoundOnRetry ==
  /\ activation.entry = "activateCartTransform"
  /\ activation.stage = "returned"
  /\ activation.isAlreadyActivated
  /\ activation.retryCount > 0
  /\ CallsOf("cartTransformCreate") # {}

\* a user error that reports a duplicate registration
DuplicateRegistration(message) ==
  \E phrase \in {"already registered", "already exists", "already active",
                 "duplicate"} :
    \E i \in 1..Len(message) :
      i + Len(phrase) - 1 <= Len(message)
      /\ SubSeq(message, i, i + Len(phrase) - 1) = phrase

\* C26: executeCartTransformActivation returns a result, never an exception;
\* it reports success iff the mutation answered with a cart transform and no
\* user errors, or with user errors that are all duplicate-registration
\* errors; every failure carries an error message.
ActivationResultFollowsAnswer ==
  activation.mutationAnswer # <<>> =>
    LET answer == activation.mutationAnswer
        outcome == activation.result
    IN /\ ~Thrown(outcome)
       /\ outcome.success <=>
            /\ answer.kind = "payload"
            /\ \/ answer.userErrors = <<>> /\ answer.cartTransform
               \/ /\ answer.userErrors # <<>>
                  /\ \A k \in DOMAIN answer.userErrors :
                       DuplicateRegistration(answer.userErrors[k])
       /\ ~outcome.success =>
            /\ "error" \in DOMAIN outcome
            /\ outcome.error # ""

\* two duplicate-registration errors and no cart transform were answered
OnlyDuplicateErrorsAnswered ==
  /\ activation.mutationAnswer # <<>>
  /\ activation.mutationAnswer.kind = "payload"
  /\ Len(activation.mutationAnswer.userErrors) = 2
  /\ ~activation.mutationAnswer.cartTransform
  /\ activation.result.success

\* ---------------------------------------------------------------------------
\* Creating an option set (app/routes/app.options-create.tsx)
\* ---------------------------------------------------------------------------

\* most options one submission carries, and most option sets created
MaxSubmitted == 2

MaxSets == 1

\* the database ids given to the n-th stored set and the n-th stored option
setId(n) == "dbset-" \o ToDecimal(n)

optionId(n) == "dbopt-" \o ToDecimal(n)

RECURSIVE storedOptions(_)
storedOptions(sets) ==
  IF sets = <<>> THEN 0
  ELSE Len(Head(sets).options) + storedOptions(Tail(sets))

\* a record of table Option (name, type, required and the dependency columns)
StoredOption(id, name, type, required, dependOnOptionId, showWhenValue) ==
  [id |-> id, name |-> name, type |-> type, required |-> required,
   dependOnOptionId |-> dependOnOptionId, showWhenValue |-> showWhenValue]

\* options: { create: options.map(...) }: one record per submitted option, in
\* the submitted order, without dependency
createdOptions(options, before) ==
  [k \in 1..Len(options) |->
     StoredOption(optionId(before + k), options[k].name, options[k].type,
                  options[k].required, NullAttribute, NullAttribute)]

\* idMapping: the database id recorded for a client id; the last submitted
\* option with that id wins
idMapping(options, dbOptions, id) ==
  LET hits == { k \in 1..Len(options) : options[k].id # "" /\ options[k].id = id }
  IN IF hits = {} THEN NullAttribute
     ELSE Attribute(dbOptions[CHOOSE k \in hits : \A j \in hits : j <= k].id)

\* options.filter(opt => opt.dependOnOptionId)
dependentOptions(options) ==
  SelectSeq(options, LAMBDA opt : opt.dependOnOptionId # "")

\* the record the update of the index-th dependent option is addressed to
\* (const dbOption = optionSet.options[index], index counted in the filtered
\* array)
updatedRecord(index) == index

\* showWhenValue || null
orNull(text) == IF text = "" THEN NullAttribute ELSE Attribute(text)

\* the updates of lines 65-80 applied to the created records
RECURSIVE linkDependencies(_, _, _, _)
linkDependencies(dbOptions, options, dependents, index) ==
  IF index > Len(dependents) THEN dbOptions
  ELSE LET frontendOption == dependents[index]
           mappedDependOnId ==
             idMapping(options, dbOptions, frontendOption.dependOnOptionId)
           target == updatedRecord(index)
       IN linkDependencies(
            IF mappedDependOnId.isNull THEN dbOptions
            ELSE [dbOptions EXCEPT
                    ![target].dependOnOptionId = mappedDependOnId,
                    ![target].showWhenValue = orNull(frontendOption.showWhenValue)],
            options, dependents, index + 1)

\* productTags.length > 0 ? productTags.join(",") : null
joinedTags(productTags) ==
  IF Len(productTags) > 0 THEN Attribute(join(productTags, ",")) ELSE NullAttribute

\* the action: the store and the response it leaves
createOptionSet(sets, shop, name, options, applyToAll, productTags, dbFails) ==
  IF name = ""
  THEN [store |-> sets,
        response |-> [error |-> "Invalid option set data", status |-> 400]]
  ELSE IF ~applyToAll /\ Len(productTags) = 0
  THEN [store |-> sets,
        response |-> [error |-> "Please select at least one product tag or choose 'Apply to all products'"]]
  ELSE IF dbFails
  THEN [store |-> sets,
        response |-> [error |-> "Failed to create option set. Please try again.",
                      status |-> 500]]
  ELSE LET created == createdOptions(options, storedOptions(sets))
           linked == linkDependencies(created, options, dependentOptions(options), 1)
           createdSet == [OptionSet(setId(Len(sets) + 1), shop, TRUE, applyToAll,
                                   joinedTags(productTags), linked)
                           EXCEPT !.name = name]
       IN [store |-> Append(sets, createdSet), response |-> [success |-> TRUE]]

\* the submissions of the editor: option k carries the client id uuid-k, is a
\* radio without dependency or a text option that depends on nothing or on
\* another submitted radio, shown when that radio is "Gloss"
SubmittedOption(k, type, dependsOn) ==
  Config(randomUUID(k - 1), type,
         IF type = "radio" THEN "Finish" ELSE "Note",
         IF type = "radio" THEN <<"Matte", "Gloss">> ELSE <<>>,
         IF dependsOn = 0 THEN "" ELSE randomUUID(dependsOn - 1),
         IF dependsOn = 0 THEN "" ELSE "Gloss")

Submissions ==
  UNION { { options \in [1..n -> UNION { { SubmittedOption(k, type, dependsOn) :
                                              type \in {"radio", "text"},
                                              dependsOn \in 0..n } : k \in 1..n }] :
              \A k \in 1..n :
                /\ options[k].id = randomUUID(k - 1)
                /\ options[k].type = "radio" => options[k].dependOnOptionId = ""
                /\ options[k].dependOnOptionId # "" =>
                     \E j \in 1..n : /\ j # k
                                     /\ options[j].type = "radio"
                                     /\ options[j].id = options[k].dependOnOptionId } :
          n \in 1..MaxSubmitted }

InitCreate ==
  /\ NoCart
  /\ NoPage
  /\ NoField
  /\ NoEditor
  /\ NoActivation
  /\ NoServer

Uncreated == UNCHANGED <<cartVars, pageVars, fieldVars, editorVars, activationVars>>

\* POST /app/options-create by an admin of the shop
CreateOptionSet(shop, name, options, applyToAll, productTags, dbFails) ==
  /\ Len(store) < MaxSets
  /\ LET done == createOptionSet(store, shop, name, options, applyToAll,
                                 productTags, dbFails)
     IN /\ store' = done.store
        /\ response' = done.response
  /\ request' = [route |-> "app.options-create", shop |-> shop, name |-> name,
                 options |-> options, applyToAll |-> applyToAll,
                 productTags |-> productTags]
  /\ Uncreated

NextCreate ==
  \E shop \in Shops, name \in {"", "Gift options"}, options \in Submissions,
     applyToAll \in BOOLEAN, productTags \in {<<>>, <<"gift", "sale">>},
     dbFails \in BOOLEAN :
    CreateOptionSet(shop, name, options, applyToAll, productTags, dbFails)

SpecCreate == InitCreate /\ [][NextCreate]_vars

\* the create action answered success
CreateSucceeded ==
  /\ request # <<>>
  /\ request.route = "app.options-create"
  /\ "success" \in DOMAIN response

\* position of the submitted option with the given client id, 0 if none
SubmittedAt(options, id) ==
  IF \E k \in DOMAIN options : options[k].id = id
  THEN CHOOSE k \in DOMAIN options : options[k].id = id
  ELSE 0

\* C27: after a successful create, the record of every submitted option that
\* depends on another submitted option points to that option's record and
\* carries the submitted showWhenValue, and the records of options without
\* dependency have a null dependency, wherever the options stand in the list.
CreatedDependenciesFollowSubmission ==
  CreateSucceeded =>
    LET options == request.options
        records == store[Len(store)].options
    IN \A k \in DOMAIN options :
         LET r == SubmittedAt(options, options[k].dependOnOptionId)
         IN IF options[k].dependOnOptionId # "" /\ r # 0 /\ r # k
            THEN /\ records[k].dependOnOptionId = Attribute(records[r].id)
                 /\ records[k].showWhenValue = Attribute(options[k].showWhenValue)
            ELSE records[k].dependOnOptionId.isNull

\* the same, for submissions whose dependent options all come first
DependentsFirst(options) ==
  \A k \in DOMAIN options :
    options[k].dependOnOptionId # "" =>
      \A j \in 1..(k - 1) : options[j].dependOnOptionId # ""

CreatedDependenciesFollowLeadingDependents ==
  (CreateSucceeded /\ DependentsFirst(request.options)) =>
    CreatedDependenciesFollowSubmission

\* ---------------------------------------------------------------------------
\* Managing option sets (app/routes/app.options.tsx, action)
\* ---------------------------------------------------------------------------

\* the option records the database can ever hold (ids dbopt-1 .. dbopt-n)
MaxRecords == 5

\* table Option is global: the record with the given id, in any set
hasOption(sets, id) ==
  \E s \in DOMAIN sets : \E k \in DOMAIN sets[s].options :
    sets[s].options[k].id = id

\* data written over a record
merge(record, data) ==
  [f \in DOMAIN record |-> IF f \in DOMAIN data THEN data[f] ELSE record[f]]

\* prisma.option.update({ where: { id }, data }) on an existing record
optionUpdate(sets, id, data) ==
  [s \in DOMAIN sets |->
     [sets[s] EXCEPT !.options =
        [k \in DOMAIN sets[s].options |->
           IF sets[s].options[k].id = id THEN merge(sets[s].options[k], data)
           ELSE sets[s].options[k]]]]

\* prisma.option.deleteMany({ where: { id: { in: ids } } })
optionDeleteMany(sets, ids) ==
  [s \in DOMAIN sets |->
     [sets[s] EXCEPT !.options =
        SelectSeq(sets[s].options, LAMBDA opt : opt.id \notin ids)]]

\* prisma.productOptionSet.findFirst({ where: { id, shop } }): the position
\* of the set, 0 when there is none
findFirst(sets, id, shop) ==
  IF \E s \in DOMAIN sets : sets[s].id = id /\ sets[s].shop = shop
  THEN CHOOSE s \in DOMAIN sets : sets[s].id = id /\ sets[s].shop = shop
  ELSE 0

\* the sets left when those the test holds for are deleted (their options go
\* with them: ON DELETE CASCADE)
deleteSets(sets, ids, shops) ==
  SelectSeq(sets, LAMBDA set : ~(set.id \in ids /\ set.shop \in shops))

\* intent batch-delete-option-set
batchDeleteOptionSet(sets, shop, ids) ==
  IF Len(ids) = 0
  THEN [store |-> sets, response |-> [error |-> "Please select the option sets to delete"]]
  ELSE [store |-> deleteSets(sets, { ids[k] : k \in DOMAIN ids }, {shop}),
        response |-> [success |-> TRUE, message |-> "Batch delete succeeded"]]

\* intent delete-option-set
deleteOptionSet(sets, shop, id) ==
  IF findFirst(sets, id, shop) = 0
  THEN [store |-> sets,
        response |-> [error |-> "Option set does not exist or you don't have permission to delete it"]]
  ELSE [store |-> deleteSets(sets, {id}, { sets[s].shop : s \in DOMAIN sets }),
        response |-> [success |-> TRUE]]

\* intent toggle-option-set-status
toggleOptionSetStatus(sets, shop, id, active) ==
  IF findFirst(sets, id, shop) = 0
  THEN [store |-> sets,
        response |-> [error |-> "Option set does not exist or you don't have permission to modify it"]]
  ELSE [store |-> [s \in DOMAIN sets |->
                     IF sets[s].id = id THEN [sets[s] EXCEPT !.active = ~active]
                     ELSE sets[s]],
        response |-> [success |-> TRUE,
                      message |-> IF ~active THEN "Option set enabled"
                                  ELSE "Option set disabled"]]

\* a transaction in progress: the tables as written so far, or failed (a
\* rejected statement rolls the transaction back)
Tx(sets) == [failed |-> FALSE, sets |-> sets]

TxFailed == [failed |-> TRUE, sets |-> <<>>]

\* `${opt.name}-${opt.type}`
nameTypeKey(opt) == opt.name \o "-" \o opt.type

\* existingIdMapping[key]: the id of the last stored option of the set with
\* that key, null when there is none
existingIdMapping(existingOptions, key) ==
  LET hits == { k \in DOMAIN existingOptions : nameTypeKey(existingOptions[k]) = key }
  IN IF hits = {} THEN NullAttribute
     ELSE Attribute(existingOptions[CHOOSE k \in hits : \A j \in hits : j <= k].id)

\* options.filter(opt => opt.id) and options.filter(opt => !opt.id)
optionsToUpdate(options) == SelectSeq(options, LAMBDA opt : opt.id # "")

optionsToCreate(options) == SelectSeq(options, LAMBDA opt : opt.id = "")

\* existingOptionIds.filter(id => !updatedOptionIds.includes(id))
optionsToDelete(existingOptions, options) ==
  { existingOptions[k].id : k \in DOMAIN existingOptions } \
  { options[k].id : k \in DOMAIN options }

\* for (const opt of optionsToUpdate) await tx.option.update(...): a record
\* that is not found rejects
RECURSIVE updateOptions(_, _)
updateOptions(tx, toUpdate) ==
  IF tx.failed \/ toUpdate = <<>> THEN tx
  ELSE LET opt == Head(toUpdate)
       IN IF ~hasOption(tx.sets, opt.id) THEN TxFailed
          ELSE updateOptions(
                 Tx(optionUpdate(tx.sets, opt.id,
                      [name |-> opt.name, required |-> opt.required,
                       dependOnOptionId |-> Attribute(opt.dependOnOptionId),
                       showWhenValue |-> Attribute(opt.showWhenValue)])),
                 Tail(toUpdate))

\* the stored sets: a set of shop a with a radio and a text option that
\* depends on it, and a set of either shop with one text option
ManagedStores ==
  { << OptionSet(setId(1), "a.myshopify.com", TRUE, TRUE, NullAttribute,
         << StoredOption(optionId(1), "Finish", "radio", FALSE,
                         NullAttribute, NullAttribute),
            StoredOption(optionId(2), "Note", "text", FALSE,
                         Attribute(optionId(1)), Attribute("Gloss")) >>),
       OptionSet(setId(2), shop, active, TRUE, NullAttribute,
         << StoredOption(optionId(3), "Engraving", "text", TRUE,
                         NullAttribute, NullAttribute) >>) >> :
      shop \in Shops, active \in BOOLEAN }

\* the ids the database gives to new records: never one that is stored or
\* referred to
UsedIds(sets) ==
  UNION { UNION { {sets[s].options[k].id, sets[s].options[k].dependOnOptionId.value} :
                    k \in DOMAIN sets[s].options } : s \in DOMAIN sets }

\* the ids given before the first request are not given again
InitialRecords == storedOptions(CHOOSE sets \in ManagedStores : TRUE)

FreeIds(sets) ==
  { n \in (InitialRecords + 1)..MaxRecords : optionId(n) \notin UsedIds(sets) }

RECURSIVE freshIds(_, _)
freshIds(free, n) ==
  IF n = 0 THEN <<>>
  ELSE LET least == CHOOSE i \in free : \A j \in free : i <= j
       IN <<optionId(least)>> \o freshIds(free \ {least}, n - 1)

\* options: { create: optionsToCreate.map(...) } on the set
createOptions(tx, id, toCreate, ids) ==
  IF tx.failed \/ toCreate = <<>> THEN tx
  ELSE Tx([s \in DOMAIN tx.sets |->
             IF tx.sets[s].id # id THEN tx.sets[s]
             ELSE [tx.sets[s] EXCEPT !.options = @ \o
                     [k \in DOMAIN toCreate |->
                        StoredOption(ids[k], toCreate[k].name, toCreate[k].type,
                                     toCreate[k].required,
                                     orNull(toCreate[k].dependOnOptionId),
                                     orNull(toCreate[k].showWhenValue))]]])

\* idMapping[id] of lines 493-501: for the last submitted option with that
\* id, the stored id found under its key, else the submitted id itself
updateIdMapping(options, existingOptions, id) ==
  LET hits == { k \in DOMAIN options : options[k].id # "" /\ options[k].id = id }
  IN IF hits = {} THEN NullAttribute
     ELSE LET opt == options[CHOOSE k \in hits : \A j \in hits : j <= k]
              stored == existingIdMapping(existingOptions, nameTypeKey(opt))
          IN IF Truthy(stored) THEN stored ELSE Attribute(opt.id)

\* the dependency updates of lines 503-517
RECURSIVE updateDependencies(_, _, _, _)
updateDependencies(tx, options, existingOptions, rest) ==
  IF tx.failed \/ rest = <<>> THEN tx
  ELSE LET opt == Head(rest)
           dbId == updateIdMapping(options, existingOptions, opt.id)
           mappedDependOnId ==
             updateIdMapping(options, existingOptions, opt.dependOnOptionId)
       IN IF opt.dependOnOptionId # "" /\ opt.id # ""
             /\ Truthy(dbId) /\ Truthy(mappedDependOnId)
          THEN IF ~hasOption(tx.sets, dbId.value) THEN TxFailed
               ELSE updateDependencies(
                      Tx(optionUpdate(tx.sets, dbId.value,
                           [dependOnOptionId |-> mappedDependOnId,
                            showWhenValue |-> orNull(opt.showWhenValue)])),
                      options, existingOptions, Tail(rest))
          ELSE updateDependencies(tx, options, existingOptions, Tail(rest))

\* the final tx.productOptionSet.update of lines 519-527
updateSet(tx, id, name, applyToAll, productTags) ==
  IF tx.failed THEN tx
  ELSE Tx([s \in DOMAIN tx.sets |->
             IF tx.sets[s].id # id THEN tx.sets[s]
             ELSE [tx.sets[s] EXCEPT !.name = name, !.applyToAll = applyToAll,
                                     !.productTags = joinedTags(productTags)]])

\* prisma.$transaction of lines 432-528
updateTransaction(sets, existingOptions, id, name, options, applyToAll, productTags) ==
  LET deleted == Tx(optionDeleteMany(sets, optionsToDelete(existingOptions, options)))
      updated == updateOptions(deleted, optionsToUpdate(options))
      created == createOptions(updated, id, optionsToCreate(options),
                               freshIds(FreeIds(sets), Len(optionsToCreate(options))))
      linked == updateDependencies(created, options, existingOptions, options)
  IN updateSet(linked, id, name, applyToAll, productTags)

\* the outcome of an action that throws: nothing is returned
Unhandled == [thrown |-> "PrismaClientKnownRequestError"]

\* intent update-option-set
updateCommitted(sets, tx) ==
  IF tx.failed THEN [store |-> sets, response |-> Unhandled]
  ELSE [store |-> tx.sets,
        response |-> [success |-> TRUE, message |-> "Option set updated"]]

updateOptionSet(sets, shop, id, name, options, applyToAll, productTags) ==
  IF findFirst(sets, id, shop) = 0
  THEN [store |-> sets,
        response |-> [error |-> "Option set does not exist or you have no permission to modify it"]]
  ELSE updateCommitted(sets,
         updateTransaction(sets, sets[findFirst(sets, id, shop)].options, id,
                           name, options, applyToAll, productTags))

\* the options a request body can carry: stored options as they are or
\* renamed, an option added in the editor (client id), with or without
\* dependency, and an option without id
SubmittedOptions ==
  { Config(optionId(1), "radio", "Finish", <<"Matte", "Gloss">>, "", ""),
    Config(optionId(2), "text", "Note", <<>>, optionId(1), "Gloss"),
    Config(optionId(2), "text", "Message", <<>>, optionId(1), "Gloss"),
    Config(optionId(3), "text", "Renamed", <<>>, "", ""),
    Config(randomUUID(0), "text", "Extra", <<>>, "", ""),
    Config(randomUUID(1), "text", "Hint", <<>>, optionId(1), "Matte"),
    Config("", "text", "Imported", <<>>, "", "") }

UpdateSubmissions ==
  UNION { [1..n -> SubmittedOptions] : n \in 0..MaxSubmitted }

SetIds == {setId(1), setId(2), setId(9)}

InitManage ==
  /\ NoCart
  /\ NoPage
  /\ NoField
  /\ NoEditor
  /\ NoActivation
  /\ store \in ManagedStores
  /\ request = <<>>
  /\ response = <<>>

\* each behaviour follows one request against one of the stores
Unserved == request = <<>>

Unmanaged == UNCHANGED <<cartVars, pageVars, fieldVars, editorVars, activationVars>>

BatchDeleteOptionSet(shop, ids) ==
  /\ Unserved
  /\ LET done == batchDeleteOptionSet(store, shop, ids)
     IN store' = done.store /\ response' = done.response
  /\ request' = [route |-> "app.options", intent |-> "batch-delete-option-set",
                 shop |-> shop, ids |-> ids]
  /\ Unmanaged

DeleteOptionSet(shop, id) ==
  /\ Unserved
  /\ LET done == deleteOptionSet(store, shop, id)
     IN store' = done.store /\ response' = done.response
  /\ request' = [route |-> "app.options", intent |-> "delete-option-set",
                 shop |-> shop, id |-> id]
  /\ Unmanaged

ToggleOptionSetStatus(shop, id, active) ==
  /\ Unserved
  /\ LET done == toggleOptionSetStatus(store, shop, id, active)
     IN store' = done.store /\ response' = done.response
  /\ request' = [route |-> "app.options", intent |-> "toggle-option-set-status",
                 shop |-> shop, id |-> id, active |-> active]
  /\ Unmanaged

UpdateOptionSet(shop, id, name, options, applyToAll, productTags) ==
  /\ Unserved
  /\ Len(optionsToCreate(options)) <= Cardinality(FreeIds(store))
  /\ LET done == updateOptionSet(store, shop, id, name, options, applyToAll,
                                 productTags)
     IN store' = done.store /\ response' = done.response
  /\ request' = [route |-> "app.options", intent |-> "update-option-set",
                 shop |-> shop, id |-> id, name |-> name, options |-> options,
                 applyToAll |-> applyToAll, productTags |-> productTags]
  /\ Unmanaged

NextManage ==
  \/ \E shop \in Shops, ids \in UNION { [1..n -> SetIds] : n \in 0..2 } :
       BatchDeleteOptionSet(shop, ids)
  \/ \E shop \in Shops, id \in SetIds : DeleteOptionSet(shop, id)
  \/ \E shop \in Shops, id \in SetIds, active \in BOOLEAN :
       ToggleOptionSetStatus(shop, id, active)
  \/ \E shop \in Shops, id \in SetIds, options \in UpdateSubmissions,
        applyToAll \in BOOLEAN :
       UpdateOptionSet(shop, id, "Gift options", options, applyToAll,
                       IF applyToAll THEN <<>> ELSE <<"gift">>)

SpecManage == InitManage /\ [][NextManage]_vars

\* C28: no step of a request authenticated for one shop changes or deletes an
\* option set of another shop, nor any of its options, whatever ids the
\* request carries.
OtherShopsSetsUntouched ==
  [][\A s \in DOMAIN store :
       store[s].shop # request'.shop =>
         \E t \in DOMAIN store' : store'[t] = store[s]]_vars

\* the step is an update-option-set on a set the shop owns
UpdatesOwnedSet ==
  /\ request'.intent = "update-option-set"
  /\ findFirst(store, request'.id, request'.shop) # 0

\* a submission as the editor sends it: each option is a stored option of the
\* set, or was added in the editor and carries a client id, or has no id;
\* ids and names are not repeated
EditorSubmission(existingOptions, options, clientIds) ==
  /\ \A k \in DOMAIN options :
       \/ options[k].id = ""
       \/ clientIds /\ StartsWith(options[k].id, 1, "uuid-")
       \/ \E j \in DOMAIN existingOptions : existingOptions[j].id = options[k].id
  /\ \A j, k \in DOMAIN options :
       j # k => options[j].id # options[k].id /\ options[j].name # options[k].name

\* the stored options are exactly the submitted ones
ExactlySubmitted(records, options) ==
  /\ Len(records) = Len(options)
  /\ \A k \in DOMAIN options :
       \E j \in DOMAIN records :
         /\ records[j].name = options[k].name
         /\ records[j].type = options[k].type
         /\ records[j].required = options[k].required
  /\ \A j \in DOMAIN records :
       \E k \in DOMAIN options : records[j].name = options[k].name

UpdateStores(clientIds) ==
  (UpdatesOwnedSet
   /\ EditorSubmission(store[findFirst(store, request'.id, request'.shop)].options,
                       request'.options, clientIds)) =>
    /\ "success" \in DOMAIN response'
    /\ ExactlySubmitted(
         store'[findFirst(store', request'.id, request'.shop)].options,
         request'.options)

\* C29: an update-option-set of an owned set with an editor submission
\* succeeds and leaves exactly the submitted options stored: absent ones
\* deleted, stored ones updated, and new ones created, also those that carry
\* a client-generated id.
UpdateStoresTheSubmission == [][UpdateStores(TRUE)]_vars

\* the same for submissions whose new options carry no id
UpdateStoresSubmissionWithoutClientIds == [][UpdateStores(FALSE)]_vars

\* the intents that look the set up by id and shop before they write leave
\* the sets of other shops as they are
DeleteAndToggleKeepOtherShops ==
  [][request'.intent # "update-option-set" =>
       \A s \in DOMAIN store :
         store[s].shop # request'.shop =>
           \E t \in DOMAIN store' : store'[t] = store[s]]_vars

\* ---------------------------------------------------------------------------
\* Importing option sets from a sheet (Excel import action)
\* ---------------------------------------------------------------------------

\* most option sets one import carries
MaxImported == 2

\* String(value) of a property the parsed sheet leaves out (modelled as "")
\* or sets
StringOf(text) == IF text = "" THEN "undefined" ELSE text

\* a set as parseExcelFile hands it over: sheet ids, options auto-linked
ImportedSet(id, name, sheet) ==
  [id |-> id, name |-> name, applyToAll |-> TRUE, productTags |-> NullAttribute,
   options |-> autoLink(sheet)]

\* prisma.productOptionSet.create of lines 28-47: the set and its options,
\* dependencies as submitted
importedOptions(options, before) ==
  [k \in 1..Len(options) |->
     StoredOption(optionId(before + k), options[k].name, options[k].type,
                  options[k].required,
                  orNull(StringOf(options[k].dependOnOptionId)),
                  orNull(StringOf(options[k].showWhenValue)))]

importedSet(sets, shop, set) ==
  [OptionSet(setId(Len(sets) + 1), shop, TRUE, set.applyToAll, set.productTags,
             importedOptions(set.options, storedOptions(sets)))
     EXCEPT !.name = set.name]

\* the first loop (lines 26-68): the store, the created sets with their
\* frontend options and the frontend set id their id mapping is kept under,
\* and the results
RECURSIVE createImported(_, _, _, _)
createImported(done, shop, optionSets, fails) ==
  IF optionSets = <<>> THEN done
  ELSE LET set == Head(optionSets)
           created == importedSet(done.store, shop, set)
       IN createImported(
            IF Head(fails)
            THEN [done EXCEPT !.results =
                    Append(@, [name |-> set.name, success |-> FALSE,
                               error |-> "Unique constraint failed"])]
            ELSE [store |-> Append(done.store, created),
                  createdSets |-> Append(done.createdSets,
                                    [created |-> created, frontendOptions |-> set.options,
                                     mappingKey |-> set.id]),
                  results |-> Append(done.results,
                                     [name |-> set.name, success |-> TRUE])],
            shop, Tail(optionSets), Tail(fails))

\* allIdMappings[setId]: defined when a mapping was kept under that key
hasIdMapping(createdSets, key) ==
  \E k \in DOMAIN createdSets : createdSets[k].mappingKey = key

\* idMapping[opt.dependOnOptionId] in the mapping of a created set
importIdMapping(createdSet, id) ==
  idMapping(createdSet.frontendOptions, createdSet.created.options, id)

\* the updates of lines 76-94 for one created set, addressed by the position
\* of the option in the submitted set
importLinked(createdSet) ==
  [k \in DOMAIN createdSet.created.options |->
     LET opt == createdSet.frontendOptions[k]
     IN IF opt.dependOnOptionId # ""
           /\ ~importIdMapping(createdSet, opt.dependOnOptionId).isNull
        THEN [createdSet.created.options[k] EXCEPT
                !.dependOnOptionId = importIdMapping(createdSet, opt.dependOnOptionId),
                !.showWhenValue = orNull(opt.showWhenValue)]
        ELSE createdSet.created.options[k]]

\* the second loop (lines 71-95): const idMapping = allIdMappings[created.id]
\* is looked up under the database id; reading a property of an undefined
\* mapping throws
RECURSIVE linkImported(_, _, _)
linkImported(sets, createdSets, rest) ==
  IF rest = <<>> THEN [sets |-> sets]
  ELSE LET createdSet == Head(rest)
           dependent == \E k \in DOMAIN createdSet.frontendOptions :
                          createdSet.frontendOptions[k].dependOnOptionId # ""
       IN IF ~dependent THEN linkImported(sets, createdSets, Tail(rest))
          ELSE IF ~hasIdMapping(createdSets, createdSet.created.id) THEN TypeError
          ELSE linkImported(
                 [s \in DOMAIN sets |->
                    IF sets[s].id = createdSet.created.id
                    THEN [sets[s] EXCEPT !.options = importLinked(createdSet)]
                    ELSE sets[s]],
                 createdSets, Tail(rest))

allSuccess(results) == \A k \in DOMAIN results : results[k].success

\* the response once both loops are through (lines 97-116)
importResponse(created, linked) ==
  IF Thrown(linked)
  THEN [store |-> created.store,
        response |-> [status |-> 500, error |-> "Batch import failed"]]
  ELSE [store |-> linked.sets,
        response |-> [status |-> IF allSuccess(created.results) THEN 200 ELSE 207,
                      allSuccess |-> allSuccess(created.results),
                      results |-> created.results]]

imported(created) ==
  importResponse(created, linkImported(created.store, created.createdSets,
                                       created.createdSets))

\* the action
importOptionSets(sets, shop, optionSets, fails) ==
  IF Len(optionSets) = 0
  THEN [store |-> sets, response |-> [status |-> 400, error |-> "No data to import"]]
  ELSE imported(createImported([store |-> sets, createdSets |-> <<>>, results |-> <<>>],
                               shop, optionSets, fails))

\* the imports: up to MaxImported sets read from the sheets
Imports ==
  UNION { { [k \in 1..n |-> ImportedSet("S" \o ToDecimal(k), "Sheet " \o ToDecimal(k),
                                        sheets[k])] :
              sheets \in [1..n -> Sheets] } : n \in 0..MaxImported }

InitImport ==
  /\ NoCart
  /\ NoPage
  /\ NoField
  /\ NoEditor
  /\ NoActivation
  /\ NoServer

\* POST of the import by an admin of the shop; fails[k] tells whether the
\* database rejects the creation of the k-th set
ImportOptionSets(shop, optionSets, fails) ==
  /\ Unserved
  /\ LET done == importOptionSets(store, shop, optionSets, fails)
     IN store' = done.store /\ response' = done.response
  /\ request' = [route |-> "excel-import", shop |-> shop, optionSets |-> optionSets,
                 fails |-> fails]
  /\ Unmanaged

NextImport ==
  \E shop \in Shops, optionSets \in Imports :
    \E fails \in [1..Len(optionSets) -> BOOLEAN] :
      ImportOptionSets(shop, optionSets, fails)

SpecImport == InitImport /\ [][NextImport]_vars

\* an import of at least one set was served
Imported ==
  /\ request # <<>>
  /\ request.route = "excel-import"
  /\ Len(request.optionSets) > 0

\* C30: after an import, every set the database accepted is stored although
\* another set failed, each set has its result entry, and the status is 200
\* iff every set was created and 207 when one failed, with or without
\* dependencies on a radio option.
ImportReportsEachSet ==
  Imported =>
    /\ Len(store) = Cardinality({ k \in DOMAIN request.fails : ~request.fails[k] })
    /\ "results" \in DOMAIN response
    /\ Len(response.results) = Len(request.optionSets)
    /\ \A k \in DOMAIN request.optionSets :
         /\ response.results[k].name = request.optionSets[k].name
         /\ response.results[k].success = ~request.fails[k]
    /\ response.allSuccess = (\A k \in DOMAIN request.fails : ~request.fails[k])
    /\ response.status = IF response.allSuccess THEN 200 ELSE 207

\* an accepted set of the import has an option that depends on a radio
ImportsDependency ==
  \E k \in DOMAIN request.optionSets :
    /\ ~request.fails[k]
    /\ \E j \in DOMAIN request.optionSets[k].options :
         request.optionSets[k].options[j].dependOnOptionId # ""

\* the same for imports whose accepted sets carry no dependency
ImportWithoutDependencyReportsEachSet ==
  (Imported /\ ~ImportsDependency) => ImportReportsEachSet

\* a failing set never keeps the others from being created
ImportCreatesAcceptedSets ==
  Imported =>
    Len(store) = Cardinality({ k \in DOMAIN request.fails : ~request.fails[k] })

====
